---- MODULE Spec2Model ----
(***************************************************************************)
(* A model of the ReadySet control plane: the Leader (controller/inner.rs)  *)
(* with its recipe, schema replication offset, worker registry and          *)
(* authority-stored ControllerState, and the replicator                     *)
(* (replicators/noria_adapter.rs) that feeds base tables.                   *)
(*                                                                         *)
(* Values computed by one step and read more than once are passed on as     *)
(* operator arguments.                                                      *)
(***************************************************************************)
EXTENDS Integers, Sequences, FiniteSets, TLC

VARIABLES
    \* the Leader
    workers,            \* Leader.workers: the registered worker identifiers
    pending_recovery,   \* Leader.pending_recovery: Option<(Vec<String>, usize)>
    recipe,             \* Leader.recipe: version, installed statements, prior
    replication_offset, \* Leader.replication_offset: the schema offset
    ingredients,        \* Leader.ingredients: the nodes, by node index
    edges,              \* Leader.ingredients: the edges <<parent, child>>
    domains,            \* Leader.domains: domain index -> worker of its shard
    table_offsets,      \* per base table: the offset persisted with its state
    auth,               \* the ControllerState stored in the authority
    crashed,            \* the Leader thread has panicked
    last_op,            \* the operation that ran last, its result and its offset
    \* the Leader thread and the requests waiting for it
    queue,              \* requests received and not yet started
    running,            \* requests that hold the Leader
    progress,           \* per request: the steps of Leader::migrate it has taken
    trace,              \* the steps taken, in order
    gauge,              \* CONTROLLER_MIGRATION_IN_PROGRESS
    \* the replicator
    upstream,           \* the upstream log: position -> replication action
    stored,             \* the offsets Noria holds: schema and per table
    rows,               \* per table: the log positions of the writes applied
    replication_offsets,\* NoriaAdapter.replication_offsets
    connector,          \* the position the connector has read up to
    position,           \* the position of main_loop
    until,              \* the `until` of main_loop
    warned_missing_tables, \* NoriaAdapter.warned_missing_tables
    ready,              \* ready_notify has been notified
    restarts,           \* how often the replicator task has been started
    r_pc,               \* where the replicator task is
    r_last,             \* what the replicator did last
    timestamp,          \* the Timestamp the replicator's last step has published
    warn_log,           \* the tables warned about as missing, in the order of the warnings
    \* the placement of domains
    volume_id,          \* Worker.volume_id: the volume each worker registers with
    node_restrictions,  \* Leader.node_restrictions: (base table, shard) -> volume
    channel_coordinator,\* the (domain, shard) keys ChannelCoordinator has an address for
    rpc_log,            \* the requests of the last place_domain, in the order sent
    placing,            \* the arguments of the last place_domain
    \* the query graph of a SELECT statement
    select_statement,   \* the SelectStatement: its where_clause, and whether it aggregates
    qg,                 \* the QueryGraph that to_query_graph has built of it
    key,                \* what QueryGraph::view_key has returned
    \* two values under comparison
    data_self,          \* the DataType cmp is called on
    data_other,         \* the DataType it is compared with
    ordering            \* the Ordering cmp has returned

\* Leader.read_addrs: the workers with an entry (WorkerIdentifier -> SocketAddr)
VARIABLE read_addrs

\* the adapter's connections
VARIABLES
    cached,             \* the query cache shared by the connectors: SelectStatement -> name
    tl_cached,          \* NoriaConnector.tl_cached of each connector
    connector_state,    \* where each connector is in get_or_create_view, and its result
    extend_log          \* the extend_recipe requests sent, with their outcome

client_vars == <<cached, tl_cached, connector_state, extend_log>>

leader_vars == <<workers, pending_recovery, recipe, replication_offset, ingredients,
                 edges, domains, table_offsets, auth, crashed, last_op>>
sched_vars == <<queue, running, progress, trace, gauge>>
repl_vars == <<upstream, stored, rows, replication_offsets, connector, position, until,
               warned_missing_tables, ready, restarts, r_pc, r_last, timestamp, warn_log>>
place_vars == <<volume_id, node_restrictions, channel_coordinator, rpc_log, placing>>
query_vars == <<select_statement, qg, key>>
data_vars == <<data_self, data_other, ordering>>
vars == <<leader_vars, sched_vars, repl_vars, place_vars, query_vars, data_vars, read_addrs, client_vars>>

----------------------------------------------------------------------------
(* Bounds of the model *)

MaxOffset == 2
MaxVersion == 2
MaxNodes == 5
MaxRequests == 3
MaxPos == 3
MaxRestarts == 2
MaxPredicates == 3
MaxText == 2
MaxExtends == 3

(* state.config.quorum, asserted non-zero in Leader::new *)
Quorum == 2

WorkerIds == {"w1", "w2"}

----------------------------------------------------------------------------
(* Replication offsets: Option<ReplicationOffset>, an opaque totally        *)
(* ordered token.  0 is None, the positions of the log count from 1.        *)

NoOffset == 0
Offsets == 1..MaxOffset
OptOffsets == {NoOffset} \cup Offsets

IsSome(o) == o # NoOffset

TryMinInto(off, other) ==
    IF ~IsSome(other) THEN off
    ELSE IF off < other THEN off ELSE other

\* ReplicationOffset::try_max_into(&self, other: &mut Option<..>): the value
\* left in `other`
TryMaxInto(off, other) ==
    IF ~IsSome(other) THEN off
    ELSE IF off > other THEN off ELSE other

----------------------------------------------------------------------------
(* Recipes.  A statement is named by the table or query it creates; a text  *)
(* is the set of its statements; a text holding BadStmt does not parse.     *)

Tables == {"t1", "t2"}
Queries == {"q1"}
Stmts == Tables \cup Queries
BadStmt == "bad"

\* the table a query reads
QueryTable(q) == "t1"

Parses(txt) == BadStmt \notin txt

\* Recipe::blank_with_config_from.  prior holds the latest prior recipe only:
\* revert is applied once to a recipe, so nothing reads a deeper one
BlankRecipe == [version |-> 0, stmts |-> {}, addr |-> << >>, prior |-> << >>]

Entry(r) == [version |-> r.version, stmts |-> r.stmts, addr |-> r.addr]

\* Recipe::extend: the parsed statements are appended, the old recipe kept as prior
RecipeExtend(r, txt) ==
    [version |-> r.version + 1, stmts |-> r.stmts \cup txt, addr |-> r.addr,
     prior |-> <<Entry(r)>>]

\* Recipe::replace: a new statement list, the old recipe kept as prior
RecipeReplace(r, stmts) ==
    [version |-> r.version + 1, stmts |-> stmts, addr |-> r.addr,
     prior |-> <<Entry(r)>>]

\* Recipe::revert: the prior recipe, or a blank one
RecipeRevert(r) ==
    IF r.prior = << >> THEN BlankRecipe
    ELSE [version |-> r.prior[1].version, stmts |-> r.prior[1].stmts,
          addr |-> r.prior[1].addr, prior |-> << >>]

PriorStmts(new) == IF new.prior = << >> THEN {} ELSE new.prior[1].stmts

\* Recipe::compute_delta against the prior recipe
Added(new) == new.stmts \ PriorStmts(new)
Removed(new) == PriorStmts(new) \ new.stmts

\* lowering a query fails when its table is not part of the recipe
ActivationOk(new) == \A q \in Added(new) \cap Queries : QueryTable(q) \in new.stmts

----------------------------------------------------------------------------
(* The graph.  A graph g is [nodes, edges, domains, addr]: nodes[i] is the  *)
(* node with index i (petgraph never reuses an index), node 1 is the        *)
(* Source; addr maps the statements of the recipe to their nodes.           *)

Source == 1
SourceNode == [kind |-> "source", name |-> "source", for |-> 0, domain |-> 0]

Children(es, n) == {e[2] : e \in {x \in es : x[1] = n}}
Parents(es, n) == {e[1] : e \in {x \in es : x[2] = n}}

\* Node::is_base, false of a node that Node::remove has turned into Dropped
IsBase(nodes, n) == nodes[n].kind = "base"

\* SqlIncorporator::is_leaf_address, of the recipe with aliases addr
IsLeafAddress(addr, n) == \E s \in DOMAIN addr : addr[s] = n

\* Migration: a CREATE TABLE becomes a Base below the Source, in a domain of
\* its own placed on worker w
AddBase(g, t, w) ==
    [nodes |-> Append(g.nodes, [kind |-> "base", name |-> t, for |-> 0,
                                domain |-> Len(g.domains) + 1]),
     edges |-> g.edges \cup {<<Source, Len(g.nodes) + 1>>},
     domains |-> Append(g.domains, w),
     addr |-> (t :> (Len(g.nodes) + 1)) @@ g.addr]

\* Migration: a query becomes an operator node in the domain of its table and
\* a Reader for it in a domain of its own
AddQuery(g, q, w) ==
    [nodes |-> g.nodes \o
               << [kind |-> "internal", name |-> q, for |-> 0,
                   domain |-> g.nodes[g.addr[QueryTable(q)]].domain],
                  [kind |-> "reader", name |-> q, for |-> Len(g.nodes) + 1,
                   domain |-> Len(g.domains) + 1] >>,
     edges |-> g.edges \cup {<<g.addr[QueryTable(q)], Len(g.nodes) + 1>>,
                             <<Len(g.nodes) + 1, Len(g.nodes) + 2>>},
     domains |-> Append(g.domains, w),
     addr |-> (q :> (Len(g.nodes) + 1)) @@ g.addr]

\* the nodes the added statements need
NodesNeeded(added) == Cardinality(added \cap Tables) + 2 * Cardinality(added \cap Queries)

AddOne(g, s, w) == IF s \in Tables THEN AddBase(g, s, w) ELSE AddQuery(g, s, w)

\* the statement lowered first: tables before queries
FirstOf(added) ==
    IF added \cap Tables # {} THEN CHOOSE x \in added \cap Tables : TRUE
    ELSE CHOOSE x \in added : TRUE

\* Recipe::activate lowers the added statements
RECURSIVE AddAll(_, _, _)
AddAll(g, added, w) ==
    IF added = {} THEN g
    ELSE AddAll(AddOne(g, FirstOf(added), w), added \ {FirstOf(added)}, w)

----------------------------------------------------------------------------
(* Removal of nodes: Leader::remove_leaf and Leader::remove_nodes.          *)

RECURSIVE Reach(_, _, _)
Reach(es, frontier, seen) ==
    IF frontier = {} THEN seen
    ELSE Reach(es, UNION {Children(es, n) : n \in frontier} \ seen,
               seen \cup UNION {Children(es, n) : n \in frontier})

\* petgraph Bfs from n: n and everything below it
Bfs(es, n) == Reach(es, {n}, {n})

Least(S) == CHOOSE y \in S : \A z \in S : y <= z

RECURSIVE SetToSeq(_)
SetToSeq(S) ==
    IF S = {} THEN << >>
    ELSE <<Least(S)>> \o SetToSeq(S \ {Least(S)})

Reverse(sq) == [i \in 1..Len(sq) |-> sq[Len(sq) + 1 - i]]

\* a loop that pushed a parent without looking at its other children
PushesShared(nodes, es2, p, start, addr) ==
    /\ nodes[p].kind # "source"
    /\ nodes[p].kind # "base"
    /\ (p = start \/ ~IsLeafAddress(addr, p))

\* the condition under which the loop of remove_leaf pushes a parent whose
\* edge it has cut
Pushes(nodes, es2, p, start, addr) ==
    /\ nodes[p].kind # "source"
    /\ nodes[p].kind # "base"
    /\ (p = start \/ ~IsLeafAddress(addr, p))
    /\ Children(es2, p) = {}

\* the loop of remove_leaf: pop a node, cut the edges from its parents, push
\* the parents to remove with it
RECURSIVE Walk(_, _, _, _, _, _)
WalkNode(nodes, es, es2, rest, removals, node, start, addr) ==
    Walk(nodes, es2,
         rest \o SetToSeq({p \in Parents(es, node) : Pushes(nodes, es2, p, start, addr)}),
         Append(removals, node), start, addr)

Walk(nodes, es, stack, removals, start, addr) ==
    IF stack = << >> THEN [edges |-> es, removals |-> removals]
    ELSE WalkNode(nodes, es,
                  es \ {<<p, stack[Len(stack)]>> : p \in Parents(es, stack[Len(stack)])},
                  SubSeq(stack, 1, Len(stack) - 1), removals, stack[Len(stack)],
                  start, addr)

\* DomainHandle::send_to_healthy reaches a shard only if its worker is registered
Healthy(doms, ws, d) == d \in 1..Len(doms) /\ doms[d] \in ws

Range(sq) == {sq[i] : i \in 1..Len(sq)}

\* the domains of the removals
DomainsOf(g, removals) == {g.nodes[n].domain : n \in Range(removals)}

\* DomainRequest::RemoveNodes for domain d
RemoveRequest(g, removals, d) ==
    [domain |-> d, nodes |-> {n \in Range(removals) : g.nodes[n].domain = d}]

\* the requests of remove_nodes that a healthy shard has received
RemoveRequests(g, ws, removals) ==
    [i \in 1..Cardinality({d \in DomainsOf(g, removals) : Healthy(g.domains, ws, d)}) |->
        RemoveRequest(g, removals,
            SetToSeq({d \in DomainsOf(g, removals) : Healthy(g.domains, ws, d)})[i])]

\* Leader::remove_nodes: every node is marked removed first; then each domain
\* is told, which fails for a domain the Leader does not know and when the
\* RPC to a healthy shard fails
RemoveNodes(g, ws, removals, rpc_ok) ==
    [res |-> IF \E n \in Range(removals) : g.nodes[n].domain \notin 1..Len(g.domains)
             THEN "err"
             ELSE IF ~rpc_ok /\ \E n \in Range(removals) :
                                   Healthy(g.domains, ws, g.nodes[n].domain)
             THEN "err"
             ELSE "ok",
     g |-> [g EXCEPT !.nodes =
                [i \in 1..Len(g.nodes) |->
                    IF i \in Range(removals) THEN [g.nodes[i] EXCEPT !.kind = "dropped"]
                    ELSE g.nodes[i]]],
     sent |-> IF (\A n \in Range(removals) : g.nodes[n].domain \in 1..Len(g.domains)) /\ rpc_ok
              THEN RemoveRequests(g, ws, removals)
              ELSE << >>]

\* remove_leaf hands the removals of the loop to remove_nodes
RemoveWalked(g, ws, w, rpc_ok) ==
    RemoveNodes([g EXCEPT !.edges = w.edges], ws, w.removals, rpc_ok)

\* remove_leaf, from the assertion that the leaf has no children on
RemoveFrom(g, ws, addr, start, leaf, first, rpc_ok) ==
    IF Children(g.edges, leaf) # {} THEN [res |-> "panic", g |-> g, sent |-> << >>]
    ELSE RemoveWalked(g, ws, Walk(g.nodes, g.edges, <<leaf>>, first, start, addr), rpc_ok)

\* the readers for start below it
ReadersFor(g, start) ==
    {c \in Bfs(g.edges, start) : g.nodes[c].kind = "reader" /\ g.nodes[c].for = start}

\* remove_leaf of a node with a reader: the reader is pushed to the removals
\* and becomes the leaf
RemoveReader(g, ws, addr, start, reader, rpc_ok) ==
    RemoveFrom(g, ws, addr, start, reader, <<reader>>, rpc_ok)

\* Leader::remove_leaf
RemoveLeaf(g, ws, addr, start, rpc_ok) ==
    IF g.nodes[start].kind = "source" THEN [res |-> "err", g |-> g, sent |-> << >>]
    ELSE IF Children(g.edges, start) = {}
    THEN RemoveFrom(g, ws, addr, start, start, << >>, rpc_ok)
    ELSE IF Cardinality(Children(g.edges, start)) # 1 THEN [res |-> "err", g |-> g, sent |-> << >>]
    ELSE IF Cardinality(ReadersFor(g, start)) # 1 THEN [res |-> "err", g |-> g, sent |-> << >>]
    ELSE RemoveReader(g, ws, addr, start, CHOOSE r \in ReadersFor(g, start) : TRUE, rpc_ok)

----------------------------------------------------------------------------
(* Leader::migrate and Leader::apply_recipe.  The results are records       *)
(* [res, recipe, g, toffs]: res is "ok", "err" or "panic", the rest is the  *)
(* Leader's state when the call returns.                                    *)

RECURSIVE RemoveLeaves(_, _, _, _, _)
RemoveLeavesNext(r, ws, addr, leaves, rpc_ok) ==
    IF r.res # "ok" THEN r ELSE RemoveLeaves(r.g, ws, addr, leaves, rpc_ok)

\* apply_recipe: the removed query nodes, in reverse topological order
RemoveLeaves(g, ws, addr, leaves, rpc_ok) ==
    IF leaves = << >> THEN [res |-> "ok", g |-> g]
    ELSE RemoveLeavesNext(RemoveLeaf(g, ws, addr, Head(leaves), rpc_ok),
                          ws, addr, Tail(leaves), rpc_ok)

RECURSIVE RemoveBases(_, _, _, _)
RemoveBasesNext(r, ws, bases, rpc_ok) ==
    IF r.res # "ok" THEN r ELSE RemoveBases(r.g, ws, bases, rpc_ok)

\* apply_recipe: the removed bases, each asserted to have no children
RemoveBases(g, ws, bases, rpc_ok) ==
    IF bases = << >> THEN [res |-> "ok", g |-> g]
    ELSE IF Children(g.edges, Head(bases)) # {} THEN [res |-> "panic", g |-> g]
    ELSE RemoveBasesNext(RemoveNodes(g, ws, <<Head(bases)>>, rpc_ok),
                         ws, Tail(bases), rpc_ok)

\* a base table's persistent state goes with its node
ClearDropped(toffs, nodes) ==
    [t \in Tables |->
        IF \E n \in 1..Len(nodes) : nodes[n].name = t /\ nodes[n].kind = "base"
        THEN toffs[t] ELSE NoOffset]

\* Leader::migrate fails when a new domain cannot be placed or booted
MigrateFails(new, ws, w, fail) ==
    Added(new) # {} /\ (fail = "migrate" \/ w \notin ws)

\* the nodes of the statements the new recipe removes
Gone(new) == {new.addr[s] : s \in Removed(new) \cap DOMAIN new.addr}

\* apply_recipe when every removal is done: self.recipe = new
ApplyDone(cur, new, toffs, r) ==
    [res |-> r.res,
     recipe |-> IF r.res = "ok"
                THEN [new EXCEPT !.addr = [s \in (DOMAIN r.g.addr) \ Removed(new) |-> r.g.addr[s]]]
                ELSE cur,
     g |-> [nodes |-> r.g.nodes, edges |-> r.g.edges, domains |-> r.g.domains],
     toffs |-> ClearDropped(toffs, r.g.nodes)]

ApplyBases(r, ws, bases, rpc_ok) ==
    IF r.res = "ok" THEN RemoveBases(r.g, ws, bases, rpc_ok) ELSE r

\* apply_recipe after the migration has committed graph g1
ApplyCommitted(cur, new, toffs, ws, g1, rpc_ok) ==
    ApplyDone(cur, new, toffs,
        ApplyBases(RemoveLeaves(g1, ws, cur.addr,
                                Reverse(SetToSeq({n \in Gone(new) : ~IsBase(g1.nodes, n)})),
                                rpc_ok),
                   ws, SetToSeq({n \in Gone(new) : IsBase(g1.nodes, n)}), rpc_ok))

\* Leader::apply_recipe
ApplyRecipe(cur, g, toffs, ws, new, w, fail) ==
    IF ActivationOk(new) /\ MigrateFails(new, ws, w, fail)
    THEN [res |-> "err", recipe |-> cur, g |-> g, toffs |-> toffs]
    ELSE IF ~ActivationOk(new)
    THEN [res |-> "err", recipe |-> RecipeRevert(cur), g |-> g, toffs |-> toffs]
    ELSE ApplyCommitted(cur, new, toffs, ws,
                        AddAll([nodes |-> g.nodes, edges |-> g.edges, domains |-> g.domains,
                                addr |-> new.addr], Added(new), w),
                        fail # "remove")

----------------------------------------------------------------------------
(* The Leader's state and the requests it answers.                          *)

G == [nodes |-> ingredients, edges |-> edges, domains |-> domains]

NoRecovery == [some |-> FALSE, recipes |-> << >>, version |-> 0]

Op(op, res, off) == [op |-> op, res |-> res, off |-> off]

\* the ControllerState a Leader can find in the authority when it is elected
InitStates ==
    {[recipes |-> << >>, recipe_version |-> 0, replication_offset |-> NoOffset]}
    \cup {[recipes |-> <<{"t1"}>>, recipe_version |-> 1, replication_offset |-> o] :
             o \in {NoOffset, 1}}

\* Leader::new on one of the given states
LeaderFrom(states) ==
    /\ workers = {}
    /\ read_addrs = {}
    /\ auth \in states
    /\ pending_recovery = IF auth.recipes # << >>
                          THEN [some |-> TRUE, recipes |-> auth.recipes,
                                version |-> auth.recipe_version]
                          ELSE NoRecovery
    /\ recipe = BlankRecipe
    /\ replication_offset = auth.replication_offset
    /\ ingredients = <<SourceNode>>
    /\ edges = {}
    /\ domains = << >>
    /\ table_offsets \in [Tables -> {NoOffset, 1}]
    /\ \A t \in Tables : IsSome(table_offsets[t]) =>
            \E i \in 1..Len(auth.recipes) : t \in auth.recipes[i]
    /\ crashed = FALSE
    /\ last_op = Op("new", "ok", NoOffset)

LeaderInit == LeaderFrom(InitStates)

\* the check between the two matches of external_request
QuorumGate == pending_recovery.some \/ Cardinality(workers) < Quorum

\* Leader::inputs: the children of the Source; it asserts that each is a base
Inputs == Children(edges, Source)
InputsPanics == \E n \in Inputs : ~IsBase(ingredients, n)

\* the first match of external_request: answered before the quorum check
Introspection ==
    {<<"GET", "/simple_graph">>, <<"POST", "/simple_graphviz">>, <<"GET", "/graph">>,
     <<"POST", "/graphviz">>, <<"GET", "/get_statistics">>, <<"POST", "/get_statistics">>}

\* arms of the second match that only read the Leader's state
GatedReads ==
    {<<"GET", "/flush_partial">>, <<"POST", "/inputs">>, <<"POST", "/outputs">>,
     <<"POST", "/verbose_outputs">>, <<"GET", "/instances">>, <<"POST", "/instances">>,
     <<"GET", "/controller_uri">>, <<"POST", "/controller_uri">>,
     <<"GET", "/workers">>, <<"POST", "/workers">>,
     <<"GET", "/healthy_workers">>, <<"POST", "/healthy_workers">>,
     <<"GET", "/nodes">>, <<"POST", "/table_builder">>, <<"POST", "/view_builder">>,
     <<"POST", "/get_info">>}

\* arms of the second match that call an operation of the Leader
GatedOps ==
    {<<"POST", "/extend_recipe">>, <<"POST", "/install_recipe">>, <<"POST", "/remove_query">>,
     <<"POST", "/set_replication_offset">>, <<"POST", "/replicate_readers">>,
     <<"POST", "/remove_node">>, <<"POST", "/replication_offset">>}

\* requests that match no arm
NoEndpoint ==
    {<<"POST", "/graph">>, <<"GET", "/inputs">>, <<"GET", "/extend_recipe">>,
     <<"POST", "/unknown">>}

Requests == Introspection \cup GatedReads \cup GatedOps \cup NoEndpoint

ArmNoGate(rq) ==
    IF rq \in Introspection THEN "introspection"
    ELSE IF rq \in GatedReads THEN "read"
    ELSE IF rq \in GatedOps THEN rq[2]
    ELSE "UnknownEndpoint"

UnknownBeforeGate(rq) ==
    IF rq \in Introspection THEN "introspection"
    ELSE IF rq \in NoEndpoint THEN "UnknownEndpoint"
    ELSE IF QuorumGate THEN "NoQuorum"
    ELSE IF rq \in GatedReads THEN "read"
    ELSE rq[2]

\* Leader::external_request: the arm a request <<method, path>> ends in
Arm(rq) ==
    IF rq \in Introspection THEN "introspection"
    ELSE IF QuorumGate THEN "NoQuorum"
    ELSE IF rq \in GatedReads THEN "read"
    ELSE IF rq \in GatedOps THEN rq[2]
    ELSE "UnknownEndpoint"

\* the request reaches the arm of the operation at path
Routed(path) == Arm(<<"POST", path>>) = path

\* an introspection request; get_statistics asks every healthy domain
IntrospectionRequest(rq, rpc_ok) ==
    /\ ~crashed
    /\ Arm(rq) = "introspection"
    /\ last_op' = Op("introspection",
                     IF rq[2] = "/get_statistics" /\ ~rpc_ok
                        /\ \E d \in 1..Len(domains) : Healthy(domains, workers, d)
                     THEN "err" ELSE "ok", NoOffset)
    /\ UNCHANGED <<workers, pending_recovery, recipe, replication_offset, ingredients,
                   edges, domains, table_offsets, auth, crashed>>

\* a request turned away by the quorum check
NoQuorumRequest(rq) ==
    /\ ~crashed
    /\ Arm(rq) = "NoQuorum"
    /\ last_op' = Op(IF rq \in GatedOps THEN rq[2] ELSE "request", "NoQuorum", NoOffset)
    /\ UNCHANGED <<workers, pending_recovery, recipe, replication_offset, ingredients,
                   edges, domains, table_offsets, auth, crashed>>

\* the arms that only read; /inputs runs the assertion of Leader::inputs
ReadRequest(rq) ==
    /\ ~crashed
    /\ Arm(rq) = "read"
    /\ rq[2] # "/view_builder"
    /\ crashed' = (rq[2] = "/inputs" /\ InputsPanics)
    /\ last_op' = Op("read", IF rq[2] = "/inputs" /\ InputsPanics THEN "panic" ELSE "ok",
                     NoOffset)
    /\ UNCHANGED <<workers, pending_recovery, recipe, replication_offset, ingredients,
                   edges, domains, table_offsets, auth>>

\* the last arm of the second match
UnknownRequest(rq) ==
    /\ ~crashed
    /\ Arm(rq) = "UnknownEndpoint"
    /\ last_op' = Op("request", "UnknownEndpoint", NoOffset)
    /\ UNCHANGED <<workers, pending_recovery, recipe, replication_offset, ingredients,
                   edges, domains, table_offsets, auth, crashed>>

----------------------------------------------------------------------------
(* The operations on the recipe and on the schema offset.                   *)

\* the new nodes fit the model's bound
Fits(new) == Len(ingredients) + NodesNeeded(Added(new)) <= MaxNodes

SetGraph(g) ==
    /\ ingredients' = g.nodes
    /\ edges' = g.edges
    /\ domains' = g.domains

OverwriteOffset(off, cur) == off

\* extend_recipe: if let Some(offset) = .. { offset.try_max_into(..) }
MergeOffset(off, cur) == IF IsSome(off) THEN TryMaxInto(off, cur) ELSE cur

InstallMerges(off, cur) == MergeOffset(off, cur)

\* install_recipe: the offset of the request replaces the one held
InstallOffset(off, cur) == off

LeaveRecipe(old, left) == left

\* the Err arms of extend_recipe, install_recipe and remove_query:
\* self.recipe = old
RestoreRecipe(old, left) == old

\* the result of a call whose apply_recipe returned res
Failed(res) == IF res = "panic" THEN "panic" ELSE "apply_err"

StaleVersion(st, version, txt, off) ==
    [st EXCEPT !.recipes = Append(@, txt),
               !.replication_offset = MergeOffset(off, @)]

\* update_controller_state of extend_recipe
ExtendState(st, version, txt, off) ==
    [st EXCEPT !.recipe_version = version,
               !.recipes = Append(@, txt),
               !.replication_offset = MergeOffset(off, @)]

\* extend_recipe after apply_recipe has returned r
ExtendApplied(r, txt, off, fail) ==
    /\ SetGraph(r.g)
    /\ table_offsets' = r.toffs
    /\ crashed' = (r.res = "panic")
    /\ IF r.res = "ok"
       THEN /\ recipe' = r.recipe
            /\ replication_offset' = MergeOffset(off, replication_offset)
            /\ IF fail = "authority"
               THEN /\ auth' = auth
                    /\ last_op' = Op("/extend_recipe", "internal", off)
               ELSE /\ auth' = ExtendState(auth, r.recipe.version, txt, off)
                    /\ last_op' = Op("/extend_recipe", "ok", off)
       ELSE /\ recipe' = IF r.res = "panic" THEN r.recipe
                         ELSE RestoreRecipe(recipe, r.recipe)
            /\ UNCHANGED <<replication_offset, auth>>
            /\ last_op' = Op("/extend_recipe", Failed(r.res), off)

\* Leader::extend_recipe
ExtendRecipe(txt, off, pw, fail) ==
    /\ ~crashed /\ Routed("/extend_recipe")
    /\ recipe.version < MaxVersion
    /\ Parses(txt) => Fits(RecipeExtend(recipe, txt))
    /\ UNCHANGED <<workers, pending_recovery>>
    /\ IF ~Parses(txt)
       THEN /\ last_op' = Op("/extend_recipe", "parse_err", off)
            /\ recipe' = RestoreRecipe(recipe, BlankRecipe)
            /\ UNCHANGED <<replication_offset, ingredients, edges, domains,
                           table_offsets, auth, crashed>>
       ELSE ExtendApplied(ApplyRecipe(BlankRecipe, G, table_offsets, workers,
                                      RecipeExtend(recipe, txt), pw, fail),
                          txt, off, fail)

\* update_controller_state of install_recipe
InstallState(st, version, txt, off) ==
    [st EXCEPT !.recipe_version = version,
               !.recipes = <<txt>>,
               !.replication_offset = InstallOffset(off, @)]

\* install_recipe after apply_recipe has returned r
InstallApplied(r, txt, off, fail) ==
    /\ SetGraph(r.g)
    /\ table_offsets' = r.toffs
    /\ crashed' = (r.res = "panic")
    /\ IF r.res = "ok"
       THEN /\ recipe' = r.recipe
            /\ replication_offset' = InstallOffset(off, replication_offset)
            /\ IF fail = "authority"
               THEN /\ auth' = auth
                    /\ last_op' = Op("/install_recipe", "internal", off)
               ELSE /\ auth' = InstallState(auth, r.recipe.version, txt, off)
                    /\ last_op' = Op("/install_recipe", "ok", off)
       ELSE /\ recipe' = IF r.res = "panic" THEN r.recipe
                         ELSE RestoreRecipe(recipe, r.recipe)
            /\ UNCHANGED <<replication_offset, auth>>
            /\ last_op' = Op("/install_recipe", Failed(r.res), off)

\* Leader::install_recipe
InstallRecipe(txt, off, pw, fail) ==
    /\ ~crashed /\ Routed("/install_recipe")
    /\ recipe.version < MaxVersion
    /\ Parses(txt) => Fits(RecipeReplace(recipe, txt))
    /\ UNCHANGED <<workers, pending_recovery>>
    /\ IF ~Parses(txt)
       THEN /\ last_op' = Op("/install_recipe", "parse_err", off)
            /\ UNCHANGED <<recipe, replication_offset, ingredients, edges, domains,
                           table_offsets, auth, crashed>>
       ELSE InstallApplied(ApplyRecipe(BlankRecipe, G, table_offsets, workers,
                                       RecipeReplace(recipe, txt), pw, fail),
                           txt, off, fail)

\* update_controller_state of remove_query
RemoveQueryState(st, version, txt) ==
    [st EXCEPT !.recipe_version = version, !.recipes = <<txt>>]

\* remove_query after apply_recipe has returned r
RemoveQueryApplied(r, fail) ==
    /\ SetGraph(r.g)
    /\ table_offsets' = r.toffs
    /\ crashed' = (r.res = "panic")
    /\ IF r.res = "ok"
       THEN /\ recipe' = r.recipe
            /\ IF fail = "authority"
               THEN /\ auth' = auth
                    /\ last_op' = Op("/remove_query", "internal", NoOffset)
               ELSE /\ auth' = RemoveQueryState(auth, r.recipe.version, r.recipe.stmts)
                    /\ last_op' = Op("/remove_query", "ok", NoOffset)
       ELSE /\ recipe' = IF r.res = "panic" THEN r.recipe
                         ELSE RestoreRecipe(recipe, r.recipe)
            /\ auth' = auth
            /\ last_op' = Op("/remove_query", Failed(r.res), NoOffset)

\* Leader::remove_query
RemoveQuery(q, fail) ==
    /\ ~crashed /\ Routed("/remove_query")
    /\ recipe.version < MaxVersion
    /\ UNCHANGED <<workers, pending_recovery, replication_offset>>
    /\ RemoveQueryApplied(ApplyRecipe(recipe, G, table_offsets, workers,
                                      RecipeReplace(recipe, recipe.stmts \ {q}), "w1", fail),
                          fail)

\* set_replication_offset: self.replication_offset = offset, before the
\* authority is asked
SetReplicationOffsetMem(off) == off

\* Leader::set_replication_offset
SetReplicationOffset(off, fail) ==
    /\ ~crashed /\ Routed("/set_replication_offset")
    /\ replication_offset' = SetReplicationOffsetMem(off)
    /\ IF fail = "authority"
       THEN /\ auth' = auth
            /\ last_op' = Op("/set_replication_offset", "err", off)
       ELSE /\ auth' = [auth EXCEPT !.replication_offset = off]
            /\ last_op' = Op("/set_replication_offset", "ok", off)
    /\ UNCHANGED <<workers, pending_recovery, recipe, ingredients, edges, domains,
                   table_offsets, crashed>>

----------------------------------------------------------------------------
(* Leader::replication_offset and the base tables it asks.                  *)

\* what a domain answers to RequestReplicationOffset: the offsets persisted
\* by its base tables; nothing when its worker cannot be reached
DomainOffsets(d) ==
    IF Healthy(domains, workers, d)
    THEN {table_offsets[ingredients[n].name] :
             n \in {x \in Inputs : IsBase(ingredients, x) /\ ingredients[x].domain = d}}
         \ {NoOffset}
    ELSE {}

\* the offsets the domains of the inputs report
Reported == UNION {DomainOffsets(ingredients[n].domain) : n \in Inputs}

Pick(S) == CHOOSE x \in S : TRUE

RECURSIVE FoldMax(_, _)
FoldMax(offs, acc) ==
    IF offs = {} THEN acc
    ELSE FoldMax(offs \ {Pick(offs)}, TryMaxInto(Pick(offs), acc))

RECURSIVE FoldMin(_, _)
FoldMin(offs, acc) ==
    IF offs = {} THEN acc
    ELSE FoldMin(offs \ {Pick(offs)}, TryMinInto(Pick(offs), acc))

ReplicationOffsetMin(schema, reported) == FoldMin(reported, schema)

\* the fold of Leader::replication_offset over the schema offset and the
\* offsets the domains report
ReplicationOffsetFold(schema, reported) == FoldMax(reported, schema)

\* what Leader::replication_offset returns when no RPC fails
ReplicationOffsetValue == ReplicationOffsetFold(replication_offset, Reported)

\* Leader::replication_offset
ReplicationOffsetReq(rpc_ok) ==
    /\ ~crashed /\ Routed("/replication_offset")
    /\ UNCHANGED <<workers, pending_recovery, recipe, replication_offset, ingredients,
                   edges, domains, table_offsets, auth>>
    /\ IF InputsPanics
       THEN /\ crashed' = TRUE
            /\ last_op' = Op("/replication_offset", "panic", NoOffset)
       ELSE /\ crashed' = crashed
            /\ IF \/ \E n \in Inputs : ingredients[n].domain \notin 1..Len(domains)
                  \/ ~rpc_ok /\ \E n \in Inputs : Healthy(domains, workers, ingredients[n].domain)
               THEN last_op' = Op("/replication_offset", "err", NoOffset)
               ELSE last_op' = Op("/replication_offset", "ok", ReplicationOffsetValue)

NeverSkips(pos, table_offset) == FALSE

\* NoriaAdapter::handle_action skips a table action from before the table's
\* offset
Skips(pos, table_offset) == IsSome(table_offset) /\ pos < table_offset

\* a replicated table write: perform_all of a batch ending in
\* SetReplicationOffset(pos), applied by the base table of t
TableWrite(t, pos) ==
    /\ ~crashed
    /\ \E n \in Inputs : /\ IsBase(ingredients, n) /\ ingredients[n].name = t
                         /\ Healthy(domains, workers, ingredients[n].domain)
    /\ ~Skips(pos, table_offsets[t])
    /\ table_offsets' = [table_offsets EXCEPT ![t] = pos]
    /\ last_op' = Op("table_write", "ok", pos)
    /\ UNCHANGED <<workers, pending_recovery, recipe, replication_offset, ingredients,
                   edges, domains, auth, crashed>>

----------------------------------------------------------------------------
(* Workers joining and failing.                                             *)

RECURSIVE Replay(_, _, _, _, _)
\* the loop goes on after a recipe that failed, and still returns its error
ReplayPastError(r, recipes, ws, pw, fail) ==
    [Replay([r EXCEPT !.res = "ok"], recipes, ws, pw,
            IF fail = "migrate_later" THEN "migrate" ELSE "none")
        EXCEPT !.res = IF r.res # "ok" THEN r.res ELSE @]

\* self.apply_recipe(..).await? in the loop: an error ends the replay; with
\* fail = "migrate_later" it is the migration of the next recipe that fails
ReplayNext(r, recipes, ws, pw, fail) ==
    IF r.res # "ok" THEN r
    ELSE Replay(r, recipes, ws, pw, IF fail = "migrate_later" THEN "migrate" ELSE "none")

\* the loop of handle_register_from_authority over the recovered recipes
Replay(st, recipes, ws, pw, fail) ==
    IF recipes = << >> THEN st
    ELSE IF ~Parses(Head(recipes)) THEN [st EXCEPT !.res = "err"]
    ELSE ReplayNext(ApplyRecipe(st.recipe, st.g, st.toffs, ws,
                                RecipeExtend(st.recipe, Head(recipes)), pw, fail),
                    Tail(recipes), ws, pw, fail)

\* the recipe the replay of pending_recovery starts from
ReplayStart(n, version) ==
    [BlankRecipe EXCEPT !.version = (IF n > version + 1 THEN n + 1 ELSE version) + 1 - n]

DrainsAtOnce(ws) == pending_recovery.some

\* the condition under which a registration drains pending_recovery
DrainsRecovery(ws) == Cardinality(ws) >= Quorum /\ pending_recovery.some

\* handle_register_from_authority after the replay has returned r
Replayed(r) ==
    /\ SetGraph(r.g)
    /\ recipe' = r.recipe
    /\ table_offsets' = r.toffs
    /\ crashed' = (r.res = "panic")
    /\ last_op' = Op("register", r.res, NoOffset)

\* Leader::handle_register_from_authority
Register(w, pw, fail) ==
    /\ ~crashed
    /\ workers' = workers \cup {w}
    /\ read_addrs' = read_addrs \cup {w}
    /\ UNCHANGED <<replication_offset, auth>>
    /\ IF DrainsRecovery(workers \cup {w})
       THEN /\ pending_recovery' = NoRecovery
            /\ IF Cardinality(workers \cup {w}) # Quorum \/ recipe.version # 0
               THEN /\ crashed' = TRUE
                    /\ last_op' = Op("register", "panic", NoOffset)
                    /\ UNCHANGED <<recipe, ingredients, edges, domains, table_offsets>>
               ELSE Replayed(Replay([res |-> "ok",
                                     recipe |-> ReplayStart(Len(pending_recovery.recipes),
                                                            pending_recovery.version),
                                     g |-> G, toffs |-> table_offsets],
                                    pending_recovery.recipes, workers \cup {w}, pw, fail))
       ELSE /\ last_op' = Op("register", "ok", NoOffset)
            /\ UNCHANGED <<pending_recovery, recipe, ingredients, edges, domains,
                           table_offsets, crashed>>

\* Leader::nodes_on_worker
NodesOnWorker(w) ==
    {n \in (1..Len(ingredients)) \ {Source} :
        /\ ingredients[n].kind # "dropped"
        /\ ingredients[n].domain \in 1..Len(domains)
        /\ domains[ingredients[n].domain] = w}

\* Leader::get_failed_nodes: the nodes on the worker and everything below them
GetFailedNodes(w) == Reach(edges, NodesOnWorker(w), NodesOnWorker(w))

\* Recipe::queries_for_nodes
QueriesForNodes(r, ns) == {s \in DOMAIN r.addr : r.addr[s] \in ns}

\* the statements handle_failed_workers removes and adds again
Affected(failed) == QueriesForNodes(recipe, UNION {GetFailedNodes(w) : w \in failed})

\* the worker Migration::commit places new domains on
Placements(ws) == IF ws = {} THEN WorkerIds ELSE ws

NoReapply(r1, ws, pw, fail) == r1

\* Recipe::make_recovery, its second recipe: the statements of the recipe the
\* failure found, at the version that follows the recovery recipe's
Original(r, recovery) == [r EXCEPT !.version = recovery.version + 1]

\* handle_failed_workers: the original recipe, applied after the recovery
\* recipe has left r1
Reapply(r1, ws, pw, fail) ==
    IF r1.res # "ok" THEN r1
    ELSE ApplyRecipe(r1.recipe, r1.g, r1.toffs, ws,
                     [Original(recipe, r1.recipe) EXCEPT !.prior = <<Entry(r1.recipe)>>,
                                                         !.addr = r1.recipe.addr],
                     pw, fail)

FailureHandled(r2) ==
    /\ SetGraph(r2.g)
    /\ recipe' = r2.recipe
    /\ table_offsets' = r2.toffs
    /\ crashed' = (r2.res = "panic")
    /\ last_op' = Op("failed_workers", r2.res, NoOffset)

\* Leader::handle_failed_workers
FailedWorkers(failed, pw, fail) ==
    /\ ~crashed
    /\ recipe.version <= MaxVersion
    /\ Len(ingredients) + NodesNeeded(Affected(failed)) <= MaxNodes
    /\ pw \in Placements(workers \ failed)
    /\ workers' = workers \ failed
    /\ UNCHANGED <<pending_recovery, replication_offset, auth>>
    /\ FailureHandled(Reapply(ApplyRecipe(recipe, G, table_offsets, workers \ failed,
                                          RecipeReplace(recipe, recipe.stmts \ Affected(failed)),
                                          pw, fail),
                              workers \ failed, pw, fail))


----------------------------------------------------------------------------
(* Leader::replicate_readers.  A request is [worker_uri, queries]; NoWorker *)
(* is worker_uri = None.                                                    *)

NoWorker == "none"

AnyWorker(worker, ws) == TRUE

\* the check of worker_uri against self.workers
KnownWorker(worker, ws) == worker = NoWorker \/ worker \in ws

\* the first loop: recipe.node_addr_for of every name, before a node is added
Resolves(addr, queries) == \A i \in 1..Len(queries) : queries[i] \in DOMAIN addr

\* the readers the Bfs below query node n meets: is_for() == n and the name
\* of the query
MirroredReaders(g, n, q) ==
    {c \in Bfs(g.edges, n) :
        g.nodes[c].kind = "reader" /\ g.nodes[c].for = n /\ g.nodes[c].name = q}

\* add_node of the mirror and add_edge from the query node; the migration
\* gives the mirror a domain of its own on worker w, unless it fails
AddMirror(g, n, q, w, placed) ==
    [nodes |-> Append(g.nodes, [kind |-> "reader", name |-> q, for |-> n,
                                domain |-> IF placed THEN Len(g.domains) + 1 ELSE 0]),
     edges |-> g.edges \cup {<<n, Len(g.nodes) + 1>>},
     domains |-> IF placed THEN Append(g.domains, w) ELSE g.domains]

\* the second loop: one mirror for each named query that has a reader
RECURSIVE Mirrors(_, _, _, _, _)
Mirrors(g, addr, queries, w, placed) ==
    IF queries = << >> THEN g
    ELSE Mirrors(IF MirroredReaders(g, addr[Head(queries)], Head(queries)) = {} THEN g
                 ELSE AddMirror(g, addr[Head(queries)], Head(queries), w, placed),
                 addr, Tail(queries), w, placed)

\* a failed migration takes the mirrors out of the graph again
RolledBack(g2, fail) ==
    /\ SetGraph(IF fail = "migrate" THEN G ELSE g2)
    /\ last_op' = Op("/replicate_readers",
                     IF fail = "migrate" /\ g2.nodes # ingredients THEN "err" ELSE "ok",
                     NoOffset)

\* replicate_readers from the second loop on: the mirrors are in the graph
\* when the migration runs
Replicated(g2, fail) ==
    /\ SetGraph(g2)
    /\ last_op' = Op("/replicate_readers",
                     IF fail = "migrate" /\ g2.nodes # ingredients THEN "err" ELSE "ok",
                     NoOffset)

\* Leader::replicate_readers
ReplicateReaders(worker, queries, pw, fail) ==
    /\ ~crashed /\ Routed("/replicate_readers")
    /\ (KnownWorker(worker, workers) /\ Resolves(recipe.addr, queries)) =>
           Len(ingredients) + Len(queries) <= MaxNodes
    /\ UNCHANGED <<workers, pending_recovery, recipe, replication_offset,
                   table_offsets, auth, crashed>>
    /\ IF ~KnownWorker(worker, workers)
       THEN /\ last_op' = Op("/replicate_readers", "ReplicationUnknownWorker", NoOffset)
            /\ UNCHANGED <<ingredients, edges, domains>>
       ELSE IF ~Resolves(recipe.addr, queries)
       THEN /\ last_op' = Op("/replicate_readers", "BadRequest", NoOffset)
            /\ UNCHANGED <<ingredients, edges, domains>>
       ELSE Replicated(Mirrors(G, recipe.addr, queries,
                               IF worker = NoWorker THEN pw ELSE worker,
                               fail # "migrate"),
                       fail)

----------------------------------------------------------------------------
(* The placement of a domain: the migration selects the shard workers and   *)
(* calls Leader::place_domain.  A logged request is [kind, to, idx, shards, *)
(* ok]; the shards of a domain count from 0.                                *)

NoVolume == "none"
Volumes == {"v1", "v2"}
Shards == {0, 1}
RestrictionKeys == Tables \X Shards

Rpc(kind, to, idx, shards, ok) ==
    [kind |-> kind, to |-> to, idx |-> idx, shards |-> shards, ok |-> ok]

Placing(idx, shard_workers, nodes) ==
    [idx |-> idx, shard_workers |-> shard_workers, nodes |-> nodes]

\* no domain has been placed
Unplaced ==
    /\ node_restrictions = [k \in RestrictionKeys |-> NoVolume]
    /\ channel_coordinator = {}
    /\ rpc_log = << >>
    /\ placing = Placing(0, << >>, {})

PlaceIdle == volume_id = [w \in WorkerIds |-> NoVolume] /\ Unplaced

\* the base tables among the nodes of the domain: node.is_base()
BasesOf(nodes) == {ingredients[n].name : n \in {x \in nodes : IsBase(ingredients, x)}}

\* step 3 of the commit protocol: a base shard with a recorded restriction
\* goes to a worker of that volume only
Honors(restr, vol, bases, shard_workers) ==
    \A b \in bases, i \in 1..Len(shard_workers) :
        restr[<<b, i - 1>>] # NoVolume => vol[shard_workers[i]] = restr[<<b, i - 1>>]

\* place_domain after the RunDomain of shard on worker w has returned: the
\* restrictions to record and the address given to the channel coordinator
Booted(st, idx, w, shard, bases) ==
    [res |-> "ok",
     new |-> IF volume_id[w] # NoVolume
             THEN st.new \cup {<<b, shard, volume_id[w]>> : b \in bases}
             ELSE st.new,
     cc |-> st.cc \cup {<<idx, shard>>},
     log |-> st.log \o <<Rpc("RunDomain", w, idx, {shard}, TRUE),
                         Rpc("insert_remote", w, idx, {shard}, TRUE)>>]

\* the loop of place_domain over shard_workers; run_fail is the shard whose
\* RunDomain request fails
RECURSIVE BootShards(_, _, _, _, _, _)
BootShards(st, idx, shard_workers, shard, bases, run_fail) ==
    IF shard >= Len(shard_workers) THEN st
    ELSE IF shard_workers[shard + 1] \notin workers
    THEN [st EXCEPT !.res = "NoAvailableWorkers"]
    ELSE IF run_fail = shard
    THEN [st EXCEPT !.res = "DomainCreationFailed",
                    !.log = Append(@, Rpc("RunDomain", shard_workers[shard + 1], idx,
                                          {shard}, FALSE))]
    ELSE BootShards(Booted(st, idx, shard_workers[shard + 1], shard, bases),
                    idx, shard_workers, shard + 1, bases, run_fail)

KeepsRestrictions(restr, new) == restr

\* set_domain_placement_local for every collected restriction: insert
SetDomainPlacementLocal(restr, new) ==
    [k \in RestrictionKeys |->
        IF \E t \in new : <<t[1], t[2]>> = k
        THEN (CHOOSE t \in new : <<t[1], t[2]>> = k)[3]
        ELSE restr[k]]

\* the descriptors told to worker w: one GossipDomainInformation(vec![dd])
\* for each shard, a failure only logged
RECURSIVE GossipTo(_, _, _, _, _)
GossipTo(log, w, idx, nshards, ok) ==
    IF nshards = 0 THEN log
    ELSE Append(GossipTo(log, w, idx, nshards - 1, ok),
                Rpc("GossipDomainInformation", w, idx, {nshards - 1}, ok))

RECURSIVE StopsAtFailure(_, _, _, _, _)
StopsAtFailure(log, ws, idx, nshards, down) ==
    IF ws = {} THEN log
    ELSE IF (CHOOSE w \in ws : TRUE) \in down
    THEN Append(log, Rpc("GossipDomainInformation", CHOOSE w \in ws : TRUE, idx, {0}, FALSE))
    ELSE StopsAtFailure(GossipTo(log, CHOOSE w \in ws : TRUE, idx, nshards, TRUE),
                        ws \ {CHOOSE w \in ws : TRUE}, idx, nshards, down)

\* the loop over self.workers
RECURSIVE Gossip(_, _, _, _, _)
Gossip(log, ws, idx, nshards, down) ==
    IF ws = {} THEN log
    ELSE Gossip(GossipTo(log, CHOOSE w \in ws : TRUE, idx, nshards,
                         (CHOOSE w \in ws : TRUE) \notin down),
                ws \ {CHOOSE w \in ws : TRUE}, idx, nshards, down)

\* place_domain from the end of the loop over the shards on
PlaceBooted(st, idx, nshards, down) ==
    /\ channel_coordinator' = st.cc
    /\ last_op' = Op("place_domain", st.res, NoOffset)
    /\ IF st.res = "ok"
       THEN /\ node_restrictions' = SetDomainPlacementLocal(node_restrictions, st.new)
            /\ rpc_log' = Gossip(st.log, workers, idx, nshards, down)
       ELSE /\ node_restrictions' = node_restrictions
            /\ rpc_log' = st.log

\* Leader::place_domain
PlaceDomain(idx, shard_workers, nodes, run_fail, down) ==
    IF \E n \in nodes : n \notin 1..Len(ingredients)
    THEN /\ last_op' = Op("place_domain", "NodeNotFound", NoOffset)
         /\ rpc_log' = << >>
         /\ UNCHANGED <<node_restrictions, channel_coordinator>>
    ELSE PlaceBooted(BootShards([res |-> "ok", new |-> {}, cc |-> channel_coordinator,
                                 log |-> << >>],
                                idx, shard_workers, 0, BasesOf(nodes), run_fail),
                     idx, Len(shard_workers), down)

\* the migration places one new domain
Place(idx, shard_workers, nodes, run_fail, down) ==
    /\ ~crashed
    /\ UNCHANGED <<workers, pending_recovery, recipe, replication_offset, ingredients,
                   edges, domains, table_offsets, auth, crashed, volume_id>>
    /\ placing' = Placing(idx, shard_workers, nodes)
    /\ IF ~Honors(node_restrictions, volume_id, BasesOf(nodes \cap 1..Len(ingredients)),
                  shard_workers)
       THEN /\ last_op' = Op("place_domain", "NoAvailableWorkers", NoOffset)
            /\ rpc_log' = << >>
            /\ UNCHANGED <<node_restrictions, channel_coordinator>>
       ELSE PlaceDomain(idx, shard_workers, nodes, run_fail, down)
----------------------------------------------------------------------------
(* Leader::remove_leaf on the graphs of MaxNodes nodes: the Source, one     *)
(* Base below it, and operator and reader nodes below the Base.  A reader   *)
(* hangs below the one node it reads and has no children.                   *)

ShapeNodes == 1..MaxNodes
Below == {n \in ShapeNodes : n > 2}

ShapeEdges == {e \in ShapeNodes \X ShapeNodes : 2 <= e[1] /\ e[1] < e[2]}

\* the name of the query whose leaf is node n
LeafName(n) == "q" \o ToString(n)

WellFormed(kinds, es) ==
    /\ \A n \in Below : Parents(es, n) # {}
    /\ \A n \in Below : kinds[n] = "reader" =>
          /\ Children(es, n) = {}
          /\ Cardinality(Parents(es, n)) = 1
          /\ \A p \in Parents(es, n) : IF p = 2 THEN TRUE ELSE kinds[p] # "reader"

ShapeNode(kinds, es, n) ==
    IF n = Source THEN SourceNode
    ELSE IF n = 2 THEN [kind |-> "base", name |-> "t1", for |-> 0, domain |-> 1]
    ELSE IF kinds[n] = "reader"
    THEN [kind |-> "reader", name |-> LeafName(CHOOSE p \in Parents(es, n) : TRUE),
          for |-> CHOOSE p \in Parents(es, n) : TRUE, domain |-> 2]
    ELSE [kind |-> "internal", name |-> LeafName(n), for |-> 0, domain |-> 1]

\* the aliases of a recipe whose queries have the leaves in `leaves`
ShapeAddr(leaves) ==
    [s \in {"t1"} \cup {LeafName(n) : n \in leaves} |->
        IF s = "t1" THEN 2 ELSE CHOOSE n \in leaves : LeafName(n) = s]

Shaped(kinds, es, leaves) ==
    /\ ingredients = [n \in ShapeNodes |-> ShapeNode(kinds, es, n)]
    /\ edges = es \cup {<<Source, 2>>}
    /\ domains = <<"w1", "w2">>
    /\ recipe = [version |-> 1, stmts |-> DOMAIN ShapeAddr(leaves),
                 addr |-> ShapeAddr(leaves), prior |-> << >>]

\* a Leader with a recipe installed, some of its workers registered
RemoveInit ==
    /\ \E kinds \in [Below -> {"internal", "reader"}], es \in SUBSET ShapeEdges :
          /\ WellFormed(kinds, es)
          /\ \E leaves \in SUBSET {n \in Below : kinds[n] = "internal"} :
                Shaped(kinds, es, leaves)
    /\ workers \in {WorkerIds, {"w1"}}
    /\ read_addrs = WorkerIds
    /\ auth = [recipes |-> <<recipe.stmts>>, recipe_version |-> 1,
               replication_offset |-> NoOffset]
    /\ pending_recovery = NoRecovery
    /\ replication_offset = NoOffset
    /\ table_offsets = [t \in Tables |-> NoOffset]
    /\ crashed = FALSE
    /\ last_op = Op("new", "ok", NoOffset)

RemovedLeaf(r) ==
    /\ SetGraph(r.g)
    /\ rpc_log' = r.sent
    /\ crashed' = (r.res = "panic")
    /\ last_op' = Op("remove_leaf", r.res, NoOffset)
    /\ UNCHANGED <<workers, pending_recovery, recipe, replication_offset, table_offsets,
                   auth, volume_id, node_restrictions, channel_coordinator, placing>>

\* apply_recipe calls remove_leaf(start) for the leaf of a removed query
RemoveLeafCall(start, rpc_ok) ==
    /\ ~crashed
    /\ last_op.op = "new"
    /\ RemovedLeaf(RemoveLeaf(G, workers, recipe.addr, start, rpc_ok))
----------------------------------------------------------------------------
(* Leader::view_builder.  A request is [name, filter]; NoFilter is          *)
(* filter = None, and Workers(ws) is Some(ViewFilter::Workers(ws)).         *)

NoFilter == [some |-> FALSE, workers |-> {}]
Workers(ws) == [some |-> TRUE, workers |-> ws]

\* Leader::outputs: the readers without a child, by name, give the node they
\* are for
Outputs ==
    {n \in 1..Len(ingredients) :
        ingredients[n].kind = "reader" /\ Children(edges, n) = {}}

NoNode == 0

\* the node of the view: recipe.node_addr_for(name), or else outputs().get(name)
ViewNode(name) ==
    IF name \in DOMAIN recipe.addr THEN recipe.addr[name]
    ELSE IF \E n \in Outputs : ingredients[n].name = name
    THEN ingredients[CHOOSE n \in Outputs : ingredients[n].name = name].for
    ELSE NoNode

\* Leader::find_readers_for
FindReadersFor(node, name, filter) ==
    {c \in Bfs(edges, node) :
        /\ ingredients[c].kind = "reader"
        /\ ingredients[c].for = node
        /\ ingredients[c].name = name
        /\ IF ~filter.some THEN TRUE
           ELSE /\ ingredients[c].domain \in 1..Len(domains)
                /\ domains[ingredients[c].domain] \in filter.workers}

\* the shard is mapped when read_addrs has the address of its worker
AddrOnly(w) == w \in read_addrs

\* ReplicaShard { addr: read_addrs.get(..)?, region: workers.get(..)?.region }
Mapped(w) == w \in read_addrs /\ w \in workers

\* the replica of reader r: self.domains.get(&domain_index), then the shards
Replica(r) ==
    IF ingredients[r].domain \notin 1..Len(domains) THEN "NoSuchDomain"
    ELSE IF ~Mapped(domains[ingredients[r].domain]) THEN "UnmappableDomain"
    ELSE "ok"

\* the workers whose read addresses the ViewBuilder of the readers carries
ViewShards(readers) == {domains[ingredients[r].domain] : r \in readers}

\* the loop over the readers: the first replica that fails ends the call
Replicas(readers) ==
    IF \A r \in readers : Replica(r) = "ok" THEN "ok"
    ELSE Replica(CHOOSE r \in readers :
                    /\ Replica(r) # "ok"
                    /\ \A x \in readers : Replica(x) # "ok" => r <= x)

\* Leader::view_builder, reached through POST /view_builder
ViewBuilder(name, filter) ==
    /\ ~crashed
    /\ Arm(<<"POST", "/view_builder">>) = "read"
    /\ last_op' = Op("/view_builder",
                     IF ViewNode(name) = NoNode THEN "none"
                     ELSE IF FindReadersFor(ViewNode(name), name, filter) = {} THEN "none"
                     ELSE Replicas(FindReadersFor(ViewNode(name), name, filter)),
                     NoOffset)
    /\ UNCHANGED <<workers, pending_recovery, recipe, replication_offset, ingredients,
                   edges, domains, table_offsets, auth, crashed>>
----------------------------------------------------------------------------
(* The Leader thread.  Requests wait in a queue; a request that runs holds  *)
(* the Leader (&mut self) from its start to its return; Leader::migrate     *)
(* sets the gauge, runs the planning closure and commits.                   *)

RequestIds == 1..MaxRequests

SchedInit ==
    /\ queue = << >>
    /\ running = {}
    /\ progress = [r \in RequestIds |-> "new"]
    /\ trace = << >>
    /\ gauge = 0

SchedIdle ==
    /\ queue = << >>
    /\ running = {}
    /\ progress = << >>
    /\ trace = << >>
    /\ gauge = 0

Shared(rs) == TRUE

\* external_request and migrate take &mut self: a call starts only when no
\* other call holds the Leader
Exclusive(rs) == rs = {}

\* a client sends a request that migrates
Submit(r) ==
    /\ progress[r] = "new"
    /\ queue' = Append(queue, r)
    /\ progress' = [progress EXCEPT ![r] = "queued"]
    /\ UNCHANGED <<running, trace, gauge>>

\* external_request enters extend_recipe and migrate: "starting migration",
\* the gauge is set, the graph is cloned into the Migration
Begin ==
    /\ queue # << >>
    /\ Exclusive(running)
    /\ running' = running \cup {Head(queue)}
    /\ queue' = Tail(queue)
    /\ progress' = [progress EXCEPT ![Head(queue)] = "started"]
    /\ trace' = Append(trace, <<Head(queue), "start">>)
    /\ gauge' = 1

\* migrate: let r = f(&mut m)
Plan(r) ==
    /\ r \in running
    /\ progress[r] = "started"
    /\ progress' = [progress EXCEPT ![r] = "planned"]
    /\ trace' = Append(trace, <<r, "plan">>)
    /\ UNCHANGED <<queue, running, gauge>>

\* migrate: m.commit(self).await?, then the gauge is reset; a failed commit
\* returns before that
Commit(r, ok) ==
    /\ r \in running
    /\ progress[r] = "planned"
    /\ progress' = [progress EXCEPT ![r] = IF ok THEN "done" ELSE "failed"]
    /\ trace' = Append(trace, <<r, IF ok THEN "finish" ELSE "abort">>)
    /\ running' = running \ {r}
    /\ gauge' = IF ok THEN 0 ELSE gauge
    /\ UNCHANGED queue

----------------------------------------------------------------------------
(* The replicator: NoriaAdapter.  The upstream log holds one replication    *)
(* action per position; a table's offset p says that the actions up to and  *)
(* including p are in the table.                                            *)

Positions == 1..MaxPos

\* a table the log writes to and Noria does not have
UnknownTable == "t0"

Actions ==
    {[kind |-> "table", table |-> t] : t \in Tables \cup {UnknownTable}}
    \cup {[kind |-> "schema", table |-> ""], [kind |-> "log", table |-> ""]}

NoOffsets == [schema |-> NoOffset, tables |-> [t \in Tables |-> NoOffset]]

\* the offsets present in a ReplicationOffsets
Present(offs) == ({offs.schema} \cup {offs.tables[t] : t \in Tables}) \ {NoOffset}

AllPresent(offs) == IsSome(offs.schema) /\ \A t \in Tables : IsSome(offs.tables[t])

\* ReplicationOffsets::max_offset: None unless the schema and every table
\* have an offset
max_offset(offs) ==
    IF AllPresent(offs) THEN CHOOSE m \in Present(offs) : \A o \in Present(offs) : o <= m
    ELSE NoOffset

\* ReplicationOffsets::min_present_offset
min_present_offset(offs) ==
    IF Present(offs) = {} THEN NoOffset
    ELSE CHOOSE m \in Present(offs) : \A o \in Present(offs) : m <= o

\* ReplicationOffsets::set_offset
set_offset(offs, pos) == [schema |-> pos, tables |-> [t \in Tables |-> pos]]

\* the writes of the log to table t up to position p
LogRows(t, p) ==
    SetToSeq({q \in 1..p : upstream[q] = [kind |-> "table", table |-> t]})

\* TableAction.txid: None, or the id of the upstream transaction
NoTx == 0
TxIds == {NoTx, 1}

NoTimestamp == <<"", NoTx>>

RLast(op, table, pos, off) == [op |-> op, table |-> table, pos |-> pos, off |-> off]

ReplInit ==
    /\ upstream \in [Positions -> Actions]
    /\ stored = NoOffsets
    /\ rows = [t \in Tables |-> << >>]
    /\ replication_offsets = NoOffsets
    /\ connector = NoOffset
    /\ position = NoOffset
    /\ until = NoOffset
    /\ warned_missing_tables = {}
    /\ ready = FALSE
    /\ restarts = 0
    /\ r_pc = "down"
    /\ r_last = RLast("new", "", NoOffset, NoOffset)
    /\ timestamp = NoTimestamp
    /\ warn_log = << >>

ReplIdle ==
    /\ upstream = << >>
    /\ stored = NoOffsets
    /\ rows = << >>
    /\ replication_offsets = NoOffsets
    /\ connector = NoOffset
    /\ position = NoOffset
    /\ until = NoOffset
    /\ warned_missing_tables = {}
    /\ ready = FALSE
    /\ restarts = 0
    /\ r_pc = "down"
    /\ r_last = RLast("new", "", NoOffset, NoOffset)
    /\ timestamp = NoTimestamp
    /\ warn_log = << >>

\* a step that publishes no timestamp and warns of nothing
Quiet == timestamp' = NoTimestamp /\ warn_log' = warn_log

\* what a snapshot can copy
Snapshotted == Tables \cup {"schema"}

\* snapshot_to_noria at log position curr: the schema and the tables in done
\* that have no offset yet are copied and get the offset curr
SnapshotOffsets(offs, curr, done) ==
    [schema |-> IF "schema" \in done /\ ~IsSome(offs.schema) THEN curr ELSE offs.schema,
     tables |-> [t \in Tables |->
                    IF t \in done /\ ~IsSome(offs.tables[t]) THEN curr ELSE offs.tables[t]]]

SnapshotRows(offs, curr, done) ==
    [t \in Tables |->
        IF t \in done /\ ~IsSome(offs.tables[t]) THEN LogRows(t, curr) ELSE rows[t]]

\* start_inner_mysql, from the connection to the binlog at pos on: the
\* catch-up to the maximum offset, or the ready signal at once
Connected(offs, pos) ==
    /\ replication_offsets' = offs
    /\ connector' = pos
    /\ position' = pos
    /\ warned_missing_tables' = {}
    /\ restarts' = restarts + 1
    /\ r_last' = RLast("start", "", pos, min_present_offset(offs))
    /\ IF IsSome(max_offset(offs)) /\ max_offset(offs) > pos
       THEN /\ r_pc' = "catchup"
            /\ until' = max_offset(offs)
            /\ ready' = ready
       ELSE /\ r_pc' = "streaming"
            /\ until' = NoOffset
            /\ ready' = TRUE

\* the task ends with an error before it has connected
StartFailed ==
    /\ restarts' = restarts + 1
    /\ r_pc' = "down"
    /\ r_last' = RLast("start_err", "", NoOffset, NoOffset)
    /\ UNCHANGED <<replication_offsets, connector, position, until, warned_missing_tables,
                   ready>>

\* start_inner_mysql when max_offset() is None: the snapshot, then the start
\* at the minimum present offset of the offsets loaded again
StartSnapshot(curr, done, ok) ==
    /\ stored' = SnapshotOffsets(stored, curr, done)
    /\ rows' = SnapshotRows(stored, curr, done)
    /\ IF IsSome(min_present_offset(SnapshotOffsets(stored, curr, done)))
       THEN Connected(SnapshotOffsets(stored, curr, done),
                      min_present_offset(SnapshotOffsets(stored, curr, done)))
       ELSE IF ok THEN Connected(SnapshotOffsets(stored, curr, done), curr)
       ELSE StartFailed

\* NoriaAdapter::start_inner_mysql
StartMysql(curr, done, ok) ==
    /\ r_pc = "down"
    /\ restarts < MaxRestarts
    /\ \A o \in Present(stored) : o <= curr
    /\ ok => done = Snapshotted
    /\ UNCHANGED upstream
    /\ Quiet
    /\ IF ~IsSome(max_offset(stored))
       THEN StartSnapshot(curr, done, ok)
       ELSE /\ UNCHANGED <<stored, rows>>
            /\ Connected(stored, max_offset(stored))

\* NoriaAdapter::start_inner_postgres: the connector starts at max_offset();
\* with none, the replication slot it creates names a snapshot, taken at curr
StartPostgres(curr, ok) ==
    /\ r_pc = "down"
    /\ restarts < MaxRestarts
    /\ \A o \in Present(stored) : o <= curr
    /\ UNCHANGED upstream
    /\ Quiet
    /\ IF IsSome(max_offset(stored))
       THEN /\ UNCHANGED <<stored, rows>>
            /\ connector' = max_offset(stored)
       ELSE /\ stored' = IF ok THEN SnapshotOffsets(stored, curr, Snapshotted) ELSE stored
            /\ rows' = IF ok THEN SnapshotRows(stored, curr, Snapshotted) ELSE rows
            /\ connector' = IF ok THEN curr ELSE connector
    /\ IF ~IsSome(max_offset(stored)) /\ ~ok
       THEN /\ restarts' = restarts + 1
            /\ r_pc' = "down"
            /\ r_last' = RLast("start_err", "", NoOffset, NoOffset)
            /\ UNCHANGED <<replication_offsets, position, until, warned_missing_tables, ready>>
       ELSE /\ replication_offsets' = stored
            /\ position' = NoOffset
            /\ until' = NoOffset
            /\ warned_missing_tables' = {}
            /\ ready' = TRUE
            /\ restarts' = restarts + 1
            /\ r_pc' = "streaming"
            /\ r_last' = RLast("start", "", connector', min_present_offset(stored))

\* the outcomes of a call to Noria
Outcomes == {"ok", "err", "invariant", "timestamp_err"}

\* main_loop: RecipeInvariantViolated ends the task, other errors are logged
Raised(out, table, pos) ==
    /\ r_pc' = IF out = "invariant" THEN "down" ELSE r_pc
    /\ r_last' = RLast(IF out = "invariant" THEN "fatal" ELSE "error", table, pos, NoOffset)

TimestampOnly(t, pos, out, txid) ==
    /\ timestamp' = IF txid # NoTx THEN <<t, txid>> ELSE NoTimestamp
    /\ replication_offsets' = [replication_offsets EXCEPT !.tables[t] = pos]
    /\ r_last' = RLast("apply", t, pos, replication_offsets.tables[t])
    /\ UNCHANGED <<rows, stored, warned_missing_tables, warn_log, r_pc>>

\* handle_action of a TableAction whose perform_all has returned Ok: the rows
\* and SetReplicationOffset(pos) are in the base table; the timestamp of a
\* txid is sent next, and only then the local offset is set
Performed(t, pos, out, txid) ==
    /\ rows' = [rows EXCEPT ![t] = Append(@, pos)]
    /\ stored' = [stored EXCEPT !.tables[t] = pos]
    /\ UNCHANGED <<warned_missing_tables, warn_log>>
    /\ IF txid # NoTx /\ out = "timestamp_err"
       THEN /\ timestamp' = NoTimestamp
            /\ r_last' = RLast("error", t, pos, NoOffset)
            /\ UNCHANGED <<replication_offsets, r_pc>>
       ELSE /\ timestamp' = IF txid # NoTx THEN <<t, txid>> ELSE NoTimestamp
            /\ replication_offsets' = [replication_offsets EXCEPT !.tables[t] = pos]
            /\ r_last' = RLast("apply", t, pos, replication_offsets.tables[t])
            /\ UNCHANGED r_pc

\* warned_missing_tables.insert(table) is true for a name not yet in the set
WarnsAgain(t) == TRUE

Warns(t) == t \notin warned_missing_tables

\* handle_action of a TableAction
HandleTable(t, pos, out, txid) ==
    IF t \in Tables /\ Skips(pos, replication_offsets.tables[t])
    THEN /\ r_last' = RLast("skip", t, pos, replication_offsets.tables[t])
         /\ Quiet
         /\ UNCHANGED <<stored, rows, replication_offsets, warned_missing_tables, r_pc>>
    ELSE IF t \notin Tables
    THEN /\ warned_missing_tables' = warned_missing_tables \cup {t}
         /\ warn_log' = IF Warns(t) THEN Append(warn_log, t) ELSE warn_log
         /\ timestamp' = NoTimestamp
         /\ r_last' = RLast("missing", t, pos, NoOffset)
         /\ UNCHANGED <<stored, rows, replication_offsets, r_pc>>
    ELSE IF out \in {"err", "invariant"}
    THEN /\ Raised(out, t, pos)
         /\ Quiet
         /\ UNCHANGED <<stored, rows, replication_offsets, warned_missing_tables>>
    ELSE Performed(t, pos, out, txid)

\* handle_action of a SchemaChange
HandleSchema(pos, out) ==
    IF IsSome(replication_offsets.schema) /\ pos < replication_offsets.schema
    THEN /\ r_last' = RLast("skip", "", pos, replication_offsets.schema)
         /\ Quiet
         /\ UNCHANGED <<stored, rows, replication_offsets, warned_missing_tables, r_pc>>
    ELSE IF out # "ok"
    THEN /\ Raised(out, "", pos)
         /\ Quiet
         /\ UNCHANGED <<stored, rows, replication_offsets, warned_missing_tables>>
    ELSE /\ Quiet
         /\ stored' = [stored EXCEPT !.schema = MergeOffset(pos, @)]
         /\ replication_offsets' = [replication_offsets EXCEPT !.schema = pos]
         /\ r_last' = RLast("schema", "", pos, replication_offsets.schema)
         /\ UNCHANGED <<rows, warned_missing_tables, r_pc>>

SchemaOnly(pos, out) ==
    /\ replication_offsets' = set_offset(replication_offsets, pos)
    /\ Quiet
    /\ stored' = [stored EXCEPT !.schema = pos]
    /\ r_last' = RLast("log", "", pos, NoOffset)
    /\ UNCHANGED <<rows, warned_missing_tables, r_pc>>

\* handle_action of a LogPosition; a failed call leaves the local offsets set
HandleLog(pos, out) ==
    /\ replication_offsets' = set_offset(replication_offsets, pos)
    /\ Quiet
    /\ UNCHANGED <<rows, warned_missing_tables>>
    /\ IF out # "ok"
       THEN /\ Raised(out, "", pos)
            /\ UNCHANGED stored
       ELSE /\ stored' = set_offset(stored, pos)
            /\ r_last' = RLast("log", "", pos, NoOffset)
            /\ UNCHANGED r_pc

\* NoriaAdapter::handle_action
HandleAction(action, pos, out, txid) ==
    IF action.kind = "table" THEN HandleTable(action.table, pos, out, txid)
    ELSE IF action.kind = "schema" THEN HandleSchema(pos, out)
    ELSE HandleLog(pos, out)

\* one turn of main_loop: the connector hands over the next action of the log
Stream(out, txid) ==
    /\ r_pc \in {"catchup", "streaming"}
    /\ ~(IsSome(until) /\ position >= until)
    /\ connector < MaxPos
    /\ connector' = connector + 1
    /\ position' = connector + 1
    /\ HandleAction(upstream[connector + 1], connector + 1, out, txid)
    /\ UNCHANGED <<upstream, until, ready, restarts>>

\* a main_loop that notified whenever it stands at its `until`
NotifiesInLoop ==
    /\ r_pc \in {"catchup", "streaming"}
    /\ r_pc = "catchup" => (IsSome(until) /\ position >= until)
    /\ r_pc' = "streaming"
    /\ until' = NoOffset
    /\ ready' = TRUE
    /\ r_last' = RLast("ready", "", position, NoOffset)
    /\ Quiet
    /\ UNCHANGED <<upstream, stored, rows, replication_offsets, connector, position,
                   warned_missing_tables, restarts>>

\* main_loop returns at `until`; start_inner_mysql notifies and streams on
CaughtUp ==
    /\ r_pc = "catchup"
    /\ IsSome(until) /\ position >= until
    /\ r_pc' = "streaming"
    /\ until' = NoOffset
    /\ ready' = TRUE
    /\ r_last' = RLast("ready", "", position, NoOffset)
    /\ Quiet
    /\ UNCHANGED <<upstream, stored, rows, replication_offsets, connector, position,
                   warned_missing_tables, restarts>>

\* main_loop leaves with the error of next_action, or the task is stopped; the
\* adapter goes with it
Shutdown ==
    /\ r_pc \in {"catchup", "streaming"}
    /\ r_pc' = "down"
    /\ replication_offsets' = NoOffsets
    /\ connector' = NoOffset
    /\ position' = NoOffset
    /\ until' = NoOffset
    /\ warned_missing_tables' = {}
    /\ r_last' = RLast("stop", "", NoOffset, NoOffset)
    /\ Quiet
    /\ UNCHANGED <<upstream, stored, rows, ready, restarts>>

----------------------------------------------------------------------------
(* The query graph of a SELECT statement: controller/sql/query_graph.rs.     *)
(* A WHERE clause is a binary tree of at most three levels, kept as a        *)
(* function from the places 1..7 to nodes; the operands of the node at       *)
(* place i stand at 2i and 2i+1.                                             *)

\* st.tables
QueryTables == {"t1", "t2"}

\* Column.table = None
NoTable == ""

Places == 1..7

\* an Expression: BinaryOp {op, lhs, rhs}, with what the classification reads
\* of the operands of a comparison
Expr(op, lhs, ltable, col, rhs, rtable) ==
    [op |-> op, lhs |-> lhs, ltable |-> ltable, col |-> col, rhs |-> rhs, rtable |-> rtable]

Absent == Expr("", "", NoTable, "", "", NoTable)
LogicalOps == {"AND", "OR"}
Logical(op) == Expr(op, "", NoTable, "", "", NoTable)

\* the comparisons a WHERE clause is built of: a column of t1 or of t2 with a
\* literal, a computed column with a literal, an arithmetic expression with a
\* literal, t1.x = t2.y, and columns with placeholders
Comparisons ==
    {Expr("=", "column", "t1", "x", "literal", NoTable),
     Expr("=", "column", "t2", "y", "literal", NoTable),
     Expr("=", "column", NoTable, "n", "literal", NoTable),
     Expr("=", "expr", NoTable, "", "literal", NoTable),
     Expr("=", "column", "t1", "x", "column", "t2"),
     Expr("=", "column", "t1", "a", "placeholder", NoTable),
     Expr(">", "column", "t1", "b", "placeholder", NoTable),
     Expr("=", "column", "t2", "c", "placeholder", NoTable)}

\* an operand of the root: a comparison, or AND/OR of two comparisons
Operands ==
    {o \in [op : LogicalOps \cup {""}, l : Comparisons, r : Comparisons] :
        o.op = "" => o.r = o.l}

Leaf(c) == [i \in Places |-> IF i = 1 THEN c ELSE Absent]

Graft(op, L, R) ==
    [i \in Places |->
        IF i = 1 THEN Logical(op)
        ELSE IF i = 2 THEN (IF L.op = "" THEN L.l ELSE Logical(L.op))
        ELSE IF i = 3 THEN (IF R.op = "" THEN R.l ELSE Logical(R.op))
        ELSE IF i = 4 THEN (IF L.op = "" THEN Absent ELSE L.l)
        ELSE IF i = 5 THEN (IF L.op = "" THEN Absent ELSE L.r)
        ELSE IF i = 6 THEN (IF R.op = "" THEN Absent ELSE R.l)
        ELSE (IF R.op = "" THEN Absent ELSE R.r)]

\* the WHERE clauses of at most MaxPredicates comparisons
Size(o) == IF o.op = "" THEN 1 ELSE 2

WhereClauses ==
    {Leaf(c) : c \in Comparisons}
    \cup {Graft(x[1], x[2], x[3]) :
            x \in {y \in LogicalOps \X Operands \X Operands :
                      Size(y[2]) + Size(y[3]) <= MaxPredicates}}

\* the places in the order of the query text
InOrder == <<4, 2, 5, 1, 6, 3, 7>>
TextPos(i) == CHOOSE k \in Places : InOrder[k] = i

\* an expression kept by the classification, written operator first
PlaceName == <<"p1", "p2", "p3", "p4", "p5", "p6", "p7">>

RECURSIVE Clone(_, _)
\* ce.clone()
Clone(ce, i) ==
    IF ce[i].op \in LogicalOps
    THEN <<ce[i].op>> \o Clone(ce, 2 * i) \o Clone(ce, 2 * i + 1)
    ELSE <<PlaceName[i]>>

\* Expression::BinaryOp {op, lhs, rhs} of two kept expressions
BinaryOp(op, lhs, rhs) == <<op>> \o lhs \o rhs

\* Parameter {col, op, placeholder_idx}; the placeholders are numbered as they
\* stand in the text
Parameter(e, i) ==
    [table |-> e.ltable, col |-> e.col, op |-> e.op, placeholder_idx |-> TextPos(i)]

\* the collections classify_conditionals fills: local, join, global, params
Found(err, msg, local, join, global, params) ==
    [err |-> err, msg |-> msg, local |-> local, join |-> join, global |-> global,
     params |-> params]

NoLocal == [t \in QueryTables |-> << >>]
Nothing == Found("", "", NoLocal, << >>, << >>, << >>)
unsupported(msg) == Found("Unsupported", msg, NoLocal, << >>, << >>, << >>)
internal(msg) == Found("Internal", msg, NoLocal, << >>, << >>, << >>)

\* classify_conditionals of an atomic selection predicate
Predicate(ce, i, e) ==
    IF e.rhs = "column"
    THEN IF /\ e.lhs = "column"
            /\ e.ltable \in QueryTables
            /\ e.rtable \in QueryTables
            /\ e.ltable # e.rtable
         THEN IF e.op = "=" THEN [Nothing EXCEPT !.join = <<PlaceName[i]>>]
              ELSE unsupported("non-equi-join?")
         ELSE [Nothing EXCEPT !.global = <<Clone(ce, i)>>]
    ELSE IF e.rhs = "placeholder"
    THEN IF e.lhs = "column" THEN [Nothing EXCEPT !.params = <<Parameter(e, i)>>]
         ELSE Nothing
    ELSE IF e.rhs = "literal"
    THEN IF e.lhs = "column"
         THEN IF e.ltable # NoTable THEN [Nothing EXCEPT !.local[e.ltable] = <<Clone(ce, i)>>]
              ELSE [Nothing EXCEPT !.global = <<Clone(ce, i)>>]
         ELSE Nothing
    ELSE unsupported("Unsupported right-hand side of condition expression")

Swapped(L, R) ==
    Found("", "", [t \in QueryTables |-> R.local[t] \o L.local[t]], R.join \o L.join,
          R.global \o L.global, R.params \o L.params)

\* new_local, new_join, new_global and new_params after both operands
Both(L, R) ==
    Found("", "", [t \in QueryTables |-> L.local[t] \o R.local[t]], L.join \o R.join,
          L.global \o R.global, L.params \o R.params)

\* LogicalOp::And
Conjunction(N) ==
    IF \E t \in QueryTables : Len(N.local[t]) > 2
    THEN internal("can only combine two or fewer ConditionExpression's")
    ELSE [N EXCEPT !.local =
            [t \in QueryTables |->
                IF Len(N.local[t]) = 2
                THEN <<BinaryOp("AND", N.local[t][1], N.local[t][2])>>
                ELSE N.local[t]]]

LocalTables(N) == {t \in QueryTables : N.local[t] # << >>}

\* an OR over the one table t
LocalOr(N, t) ==
    IF Len(N.local[t]) # 2
    THEN unsupported("should combine only 2 ConditionExpressions")
    ELSE [Nothing EXCEPT !.local[t] = <<BinaryOp("OR", N.local[t][1], N.local[t][2])>>]

OrOfParameters(ce, i, N) ==
    IF N.join # << >>
    THEN unsupported("can't handle OR expressions between JOIN predicates")
    ELSE IF Cardinality(LocalTables(N)) = 1 /\ N.global = << >>
    THEN LocalOr(N, CHOOSE t \in QueryTables : t \in LocalTables(N))
    ELSE [Nothing EXCEPT !.global = <<Clone(ce, i)>>]

\* LogicalOp::Or
Disjunction(ce, i, N) ==
    IF N.join # << >>
    THEN unsupported("can't handle OR expressions between JOIN predicates")
    ELSE IF N.params # << >>
    THEN unsupported("can't handle OR expressions between query parameter predicates")
    ELSE IF Cardinality(LocalTables(N)) = 1 /\ N.global = << >>
    THEN LocalOr(N, CHOOSE t \in QueryTables : t \in LocalTables(N))
    ELSE [Nothing EXCEPT !.global = <<Clone(ce, i)>>]

\* classify_conditionals of AND and OR, from the results of the operands
Combine(ce, i, L, R) ==
    IF L.err # "" THEN L
    ELSE IF R.err # "" THEN R
    ELSE IF ce[i].op = "AND" THEN Conjunction(Both(L, R))
    ELSE Disjunction(ce, i, Both(L, R))

RECURSIVE classify_conditionals(_, _)
\* classify_conditionals: what the expression at place i adds to the collections
classify_conditionals(ce, i) ==
    IF ce[i].op \in LogicalOps
    THEN Combine(ce, i, classify_conditionals(ce, 2 * i), classify_conditionals(ce, 2 * i + 1))
    ELSE Predicate(ce, i, ce[i])

\* the end of the expression that begins at k
RECURSIVE ExprEnd(_, _)
ExprEnd(e, k) ==
    IF e[k] \in LogicalOps THEN ExprEnd(e, ExprEnd(e, k + 1) + 1) ELSE k

RECURSIVE SplitAnd(_)
SplitAnd(e) ==
    IF e[1] = "AND"
    THEN SplitAnd(SubSeq(e, 2, ExprEnd(e, 2)))
         \o SplitAnd(SubSeq(e, ExprEnd(e, 2) + 1, Len(e)))
    ELSE <<e>>

RECURSIVE split_conjunctions(_)
\* split_conjunctions: the top level conjunctions of ces, taken apart
split_conjunctions(ces) ==
    IF ces = << >> THEN << >>
    ELSE SplitAnd(Head(ces)) \o split_conjunctions(Tail(ces))

OfTable(params, t) == SelectSeq(params, LAMBDA p : p.table = t)

\* a QueryGraph: per relation its predicates and parameters, the join and the
\* global predicates, and whether there is a relation of computed columns
Graph(err, msg, relations, join, global, aggregates) ==
    [err |-> err, msg |-> msg, relations |-> relations, join |-> join,
     global_predicates |-> global, aggregates |-> aggregates]

NoRelations == [t \in QueryTables |-> [predicates |-> << >>, parameters |-> << >>]]
NoGraph == Graph("unbuilt", "", NoRelations, << >>, << >>, FALSE)

\* to_query_graph, the WHERE clause once classified
Classified(cc, aggregates) ==
    IF cc.err # "" THEN Graph(cc.err, cc.msg, NoRelations, << >>, << >>, aggregates)
    ELSE IF \E k \in 1..Len(cc.params) : cc.params[k].table = NoTable
    THEN Graph("Unsupported", "each parameter's column must have an associated table!",
               NoRelations, << >>, << >>, aggregates)
    ELSE Graph("", "",
               [t \in QueryTables |->
                   [predicates |-> split_conjunctions(cc.local[t]),
                    parameters |-> OfTable(cc.params, t)]],
               cc.join, cc.global, aggregates)

\* to_query_graph
to_query_graph(s) == Classified(classify_conditionals(s.where_clause, 1), s.aggregates)

\* the orders in which the HashMap of the relations can hand out its values
IterationOrders == {<<"t1", "t2">>, <<"t2", "t1">>}

RECURSIVE Flatten(_, _)
Flatten(g, order) ==
    IF order = << >> THEN << >>
    ELSE g.relations[Head(order)].parameters \o Flatten(g, Tail(order))

\* QueryGraph::parameters, the relations iterated in `order`
parameters(g, order) == Flatten(g, order)

\* IndexType::for_operator
NoIndex == "None"
for_operator(op) ==
    IF op = "=" THEN "HashMap"
    ELSE IF op \in {">", ">=", "<", "<="} THEN "BTreeMap"
    ELSE NoIndex

\* a ViewKey, or the error of view_key
Key(err, msg, columns, index_type) ==
    [err |-> err, msg |-> msg, columns |-> columns, index_type |-> index_type]

NoKey == Key("unasked", "", << >>, NoIndex)
NoPlaceholder == 0

KeyColumns(params) ==
    [k \in 1..Len(params) |-> <<params[k].table, params[k].col, params[k].placeholder_idx>>]

\* the index type a hash and an ordered operator would share
MixedIndex(index_type, it) == "HashMap"

\* the index type after a parameter of index type `it`: the two have to agree
SameIndex(index_type, it) == IF index_type = it THEN it ELSE NoIndex

RECURSIVE IndexOf(_, _, _, _)
\* view_key: the loop over the parameters from the k-th on
IndexOf(params, k, index_type, has_aggregates) ==
    IF k > Len(params) THEN Key("", "", KeyColumns(params), index_type)
    ELSE IF has_aggregates /\ params[k].op # "="
    THEN Key("Unsupported", "Aggregates are not currently supported with non-equal parameters",
             << >>, NoIndex)
    ELSE IF for_operator(params[k].op) = NoIndex
    THEN Key("Unsupported", "Unsupported binary operator", << >>, NoIndex)
    ELSE IF index_type = NoIndex
    THEN IndexOf(params, k + 1, for_operator(params[k].op), has_aggregates)
    ELSE IF SameIndex(index_type, for_operator(params[k].op)) # NoIndex
    THEN IndexOf(params, k + 1, index_type, has_aggregates)
    ELSE Key("Unsupported", "Conflicting binary operators in query", << >>, NoIndex)

\* QueryGraph::view_key
view_key(g, order) ==
    IF parameters(g, order) = << >>
    THEN Key("", "", <<<<NoTable, "bogokey", NoPlaceholder>>>>, "HashMap")
    ELSE IndexOf(parameters(g, order), 1, NoIndex, g.aggregates)

QueryIdle == select_statement = << >> /\ qg = << >> /\ key = << >>

QueryInit ==
    /\ select_statement \in [where_clause : WhereClauses, aggregates : BOOLEAN]
    /\ qg = NoGraph
    /\ key = NoKey

\* the statement is turned into its query graph
ToQueryGraph ==
    /\ qg = NoGraph
    /\ qg' = to_query_graph(select_statement)
    /\ UNCHANGED <<select_statement, key>>

\* the view key of the graph is asked for
ViewKey(order) ==
    /\ qg.err = ""
    /\ key' = view_key(qg, order)
    /\ UNCHANGED <<select_statement, qg>>

----------------------------------------------------------------------------
(* DataType (noria/src/data.rs) and its order.  A value is a record of its  *)
(* variant tag and fields: i is the integer (for Real the integer part, for *)
(* Timestamp the instant), f the fractional part of a Real, s the bytes of  *)
(* a Text and the whole array of a TinyText.                                *)

Bytes == {97, 98}

\* the strings of at most n bytes
RECURSIVE Strings(_)
Strings(n) ==
    IF n = 0 THEN {<< >>}
    ELSE Strings(n - 1) \cup {Append(s, b) : s \in Strings(n - 1), b \in Bytes}

\* DataType::from(&str) for a tiny string: the bytes, then zeros up to the width
RECURSIVE TinyBytes(_)
TinyBytes(s) == IF Len(s) >= MaxText THEN s ELSE TinyBytes(Append(s, 0))

Data(tag, i, f, s) == [tag |-> tag, i |-> i, f |-> f, s |-> s]

DataTypes ==
    {Data("None", 0, 0, << >>)}
    \cup {Data("Int", i, 0, << >>) : i \in -1..1}
    \cup {Data("UnsignedInt", i, 0, << >>) : i \in 0..1}
    \cup {Data("BigInt", i, 0, << >>) : i \in -1..1}
    \cup {Data("UnsignedBigInt", i, 0, << >>) : i \in 0..1}
    \cup {Data("Real", i, f, << >>) : i \in -1..1, f \in -1..1}
    \cup {Data("Text", 0, 0, s) : s \in Strings(MaxText)}
    \cup {Data("TinyText", 0, 0, TinyBytes(s)) : s \in Strings(MaxText)}
    \cup {Data("Timestamp", i, 0, << >>) : i \in 1..2}

Integral == {"Int", "UnsignedInt", "BigInt", "UnsignedBigInt"}
Textual == {"Text", "TinyText"}

\* Ord::cmp of two integers
IntCmp(a, b) == IF a < b THEN "Less" ELSE IF a > b THEN "Greater" ELSE "Equal"

\* Ord::cmp of two byte slices: the first byte that differs decides, then the length
RECURSIVE BytesCmp(_, _)
BytesCmp(a, b) ==
    IF a = << >> /\ b = << >> THEN "Equal"
    ELSE IF a = << >> THEN "Less"
    ELSE IF b = << >> THEN "Greater"
    ELSE IF Head(a) # Head(b) THEN IntCmp(Head(a), Head(b))
    ELSE BytesCmp(Tail(a), Tail(b))

\* Ordering::then_with
ThenWith(first, second) == IF first = "Equal" THEN second ELSE first

\* the bytes before the first zero of a TinyText array
RECURSIVE UpToNul(_)
UpToNul(bts) ==
    IF bts = << >> \/ Head(bts) = 0 THEN << >> ELSE <<Head(bts)>> \o UpToNul(Tail(bts))

\* <&str>::from(&DataType)
Str(d) == IF d.tag = "Text" THEN d.s ELSE UpToNul(d.s)

\* impl Ord for DataType: cmp, arm by arm; the arms after the comment
\* "order Ints, Reals, Text, Timestamps, None" match on self alone
cmp(self, other) ==
    IF self.tag = "Text" /\ other.tag = "Text" THEN BytesCmp(self.s, other.s)
    ELSE IF self.tag = "TinyText" /\ other.tag = "TinyText" THEN BytesCmp(self.s, other.s)
    ELSE IF self.tag \in Textual /\ other.tag \in Textual THEN BytesCmp(Str(self), Str(other))
    ELSE IF self.tag \in Integral /\ other.tag \in Integral THEN IntCmp(self.i, other.i)
    ELSE IF self.tag = "Real" /\ other.tag = "Real"
         THEN ThenWith(IntCmp(self.i, other.i), IntCmp(self.f, other.f))
    ELSE IF self.tag = "Timestamp" /\ other.tag = "Timestamp" THEN IntCmp(self.i, other.i)
    ELSE IF self.tag = "None" /\ other.tag = "None" THEN "Equal"
    ELSE "Greater"

NoOrdering == ""

DataIdle == data_self = << >> /\ data_other = << >> /\ ordering = NoOrdering

DataInit == data_self \in DataTypes /\ data_other \in DataTypes /\ ordering = NoOrdering

\* self.cmp(other)
Cmp ==
    /\ ordering = NoOrdering
    /\ ordering' = cmp(data_self, data_other)
    /\ UNCHANGED <<data_self, data_other>>

\* other.cmp(self), as a sort does when it meets the pair the other way round
CmpSwapped ==
    /\ ordering = NoOrdering
    /\ data_self' = data_other
    /\ data_other' = data_self
    /\ ordering' = cmp(data_other, data_self)
----------------------------------------------------------------------------
(* NoriaConnector::get_or_create_view.  The connectors of the connections   *)
(* share one query cache; a connector is suspended while its extend_recipe  *)
(* request is with the controller, and other connectors run meanwhile.      *)

Connectors == {"c1", "c2"}
SelectStatements == {"s1", "s2"}

\* utils::hash_select_query: a function of the statement alone
HashSelectQuery(q) == IF q = "s1" THEN "1f" ELSE "2e"

\* format!("q_{:x}", qh)
QName(q) == "q_" \o HashSelectQuery(q)

NoStatement == ""

ConnectorIdle == [pc |-> "idle", q |-> NoStatement, result |-> "none"]

ClientIdle ==
    /\ cached = << >>
    /\ tl_cached = << >>
    /\ connector_state = << >>
    /\ extend_log = << >>

\* the query cache handed to NoriaConnector::new, and a connector per
\* connection
ClientInit ==
    /\ cached = << >>
    /\ tl_cached = [c \in Connectors |-> << >>]
    /\ connector_state = [c \in Connectors |-> ConnectorIdle]
    /\ extend_log = << >>

\* HashMap::insert
Insert(map, k, v) == [x \in (DOMAIN map) \cup {k} |-> IF x = k THEN v ELSE map[x]]

\* the global cache is never consulted
GlobalMiss(gc, q) == FALSE

\* gc.get(q) under the read lock: Some
GlobalGet(gc, q) == q \in DOMAIN gc

\* the extend_recipe requests sent for statement q that have not failed
Extends(q) ==
    {i \in 1..Len(extend_log) : extend_log[i].q = q /\ extend_log[i].res # "err"}

\* get_or_create_view up to the extend_recipe request: the thread-local
\* cache, then the global cache under the read lock, then the request
Lookup(c, q) ==
    /\ connector_state[c].pc = "idle"
    /\ cached' = cached
    /\ IF q \in DOMAIN tl_cached[c]
       THEN /\ connector_state' = [connector_state EXCEPT
                  ![c] = [pc |-> "idle", q |-> q, result |-> tl_cached[c][q]]]
            /\ UNCHANGED <<tl_cached, extend_log>>
       ELSE IF GlobalGet(cached, q)
       THEN /\ tl_cached' = [tl_cached EXCEPT ![c] = Insert(@, q, cached[q])]
            /\ connector_state' = [connector_state EXCEPT
                  ![c] = [pc |-> "idle", q |-> q, result |-> cached[q]]]
            /\ UNCHANGED extend_log
       ELSE /\ Len(extend_log) < MaxExtends
            /\ extend_log' = Append(extend_log, [conn |-> c, q |-> q, name |-> QName(q),
                                                 res |-> "pending"])
            /\ connector_state' = [connector_state EXCEPT
                  ![c] = [pc |-> "extend_recipe", q |-> q, result |-> "none"]]
            /\ UNCHANGED tl_cached

\* the request of connector c that is with the controller
Pending(c) ==
    CHOOSE i \in 1..Len(extend_log) :
        extend_log[i].conn = c /\ extend_log[i].res = "pending"

\* get_or_create_view from the answer of extend_recipe on: Err(e)? on an
\* error, otherwise the insert under the write lock and into tl_cached
Answered(c, ok) ==
    /\ connector_state[c].pc = "extend_recipe"
    /\ extend_log' = [extend_log EXCEPT ![Pending(c)].res = IF ok THEN "ok" ELSE "err"]
    /\ IF ok
       THEN /\ cached' = Insert(cached, connector_state[c].q, QName(connector_state[c].q))
            /\ tl_cached' = [tl_cached EXCEPT
                  ![c] = Insert(@, connector_state[c].q, QName(connector_state[c].q))]
            /\ connector_state' = [connector_state EXCEPT
                  ![c] = [pc |-> "idle", q |-> @.q, result |-> QName(@.q)]]
       ELSE /\ connector_state' = [connector_state EXCEPT
                  ![c] = [pc |-> "idle", q |-> @.q, result |-> "Err"]]
            /\ UNCHANGED <<cached, tl_cached>>
----------------------------------------------------------------------------
(* The specifications.                                                      *)

\* a Leader that takes no step
LeaderIdle ==
    /\ workers = {}
    /\ read_addrs = {}
    /\ auth = [recipes |-> << >>, recipe_version |-> 0, replication_offset |-> NoOffset]
    /\ pending_recovery = NoRecovery
    /\ recipe = BlankRecipe
    /\ replication_offset = NoOffset
    /\ ingredients = <<SourceNode>>
    /\ edges = {}
    /\ domains = << >>
    /\ table_offsets = [t \in Tables |-> NoOffset]
    /\ crashed = FALSE
    /\ last_op = Op("new", "ok", NoOffset)

Init == LeaderInit /\ SchedIdle /\ ReplIdle /\ PlaceIdle /\ QueryIdle /\ DataIdle /\ ClientIdle

\* a registration, which adds to read_addrs
RegisterOnly == UNCHANGED <<sched_vars, repl_vars, place_vars, query_vars, data_vars, client_vars>>

LeaderOnly == RegisterOnly /\ UNCHANGED read_addrs

Failures == {"none", "migrate", "remove", "authority"}

\* the texts clients send to extend_recipe and to install_recipe
ExtendTexts == {{"t1"}, {"q1"}, {BadStmt}}
InstallTexts == {{}, {"t1"}, {"t1", "q1"}, {BadStmt}}

\* the views clients ask for, and the filters of their requests
ViewNames == {"q1", "t1"}
ViewFilters == {NoFilter, Workers({"w1"})}

(* The Leader under registrations, worker failures, recipe changes and      *)
(* requests; the clients send no replication offset.                        *)
Next ==
    \/ \E w \in WorkerIds, pw \in WorkerIds, fail \in {"none", "migrate"} :
          pw \in workers \cup {w} /\ Register(w, pw, fail) /\ RegisterOnly
    \/ \E failed \in (SUBSET workers) \ {{}}, pw \in WorkerIds,
          fail \in {"none", "migrate", "remove"} :
          FailedWorkers(failed, pw, fail) /\ LeaderOnly
    \/ \E txt \in ExtendTexts, pw \in workers, fail \in Failures :
          ExtendRecipe(txt, NoOffset, pw, fail) /\ LeaderOnly
    \/ \E txt \in InstallTexts, pw \in workers, fail \in Failures :
          InstallRecipe(txt, NoOffset, pw, fail) /\ LeaderOnly
    \/ \E q \in Queries, fail \in {"none", "remove", "authority"} :
          RemoveQuery(q, fail) /\ LeaderOnly
    \/ \E rpc_ok \in BOOLEAN : ReplicationOffsetReq(rpc_ok) /\ LeaderOnly
    \/ \E rq \in Requests, rpc_ok \in BOOLEAN : IntrospectionRequest(rq, rpc_ok) /\ LeaderOnly
    \/ \E rq \in Requests : NoQuorumRequest(rq) /\ LeaderOnly
    \/ \E rq \in Requests : ReadRequest(rq) /\ LeaderOnly
    \/ \E name \in ViewNames, filter \in ViewFilters : ViewBuilder(name, filter) /\ LeaderOnly
    \/ \E rq \in Requests : UnknownRequest(rq) /\ LeaderOnly

Spec == Init /\ [][Next]_vars

(* The Leader under recipe changes that can fail at every step.             *)
NextRecipe ==
    \/ \E w \in WorkerIds, pw \in WorkerIds, fail \in {"none", "migrate"} :
          pw \in workers \cup {w} /\ Register(w, pw, fail) /\ RegisterOnly
    \/ \E txt \in ExtendTexts, off \in {NoOffset, 1}, pw \in workers, fail \in Failures :
          ExtendRecipe(txt, off, pw, fail) /\ LeaderOnly
    \/ \E txt \in InstallTexts, off \in {NoOffset, 1}, pw \in workers, fail \in Failures :
          InstallRecipe(txt, off, pw, fail) /\ LeaderOnly
    \/ \E q \in Queries, fail \in {"none", "remove", "authority"} :
          RemoveQuery(q, fail) /\ LeaderOnly

SpecRecipe == Init /\ [][NextRecipe]_vars

(* The Leader and its base tables under a replicator: recipes of tables     *)
(* that come with an offset, offsets set directly, table writes, and        *)
(* clients asking for the replication offset; new domains go to w1.         *)
TableTexts == {{"t1"}, {"t2"}}
TableInstalls == {{"t1"}, {"t2"}, {"t1", "t2"}}

NextOffset ==
    \/ \E w \in WorkerIds : Register(w, w, "none") /\ RegisterOnly
    \/ \E txt \in TableTexts, off \in OptOffsets, fail \in {"none", "authority"} :
          ExtendRecipe(txt, off, "w1", fail) /\ LeaderOnly
    \/ \E txt \in TableInstalls, off \in OptOffsets, fail \in {"none", "authority"} :
          InstallRecipe(txt, off, "w1", fail) /\ LeaderOnly
    \/ \E off \in OptOffsets, fail \in {"none", "authority"} :
          SetReplicationOffset(off, fail) /\ LeaderOnly
    \/ \E rpc_ok \in BOOLEAN : ReplicationOffsetReq(rpc_ok) /\ LeaderOnly
    \/ \E t \in Tables, pos \in Offsets : TableWrite(t, pos) /\ LeaderOnly

SpecOffset == Init /\ [][NextOffset]_vars

(* The Leader thread under requests that migrate.                           *)
InitSched == LeaderIdle /\ SchedInit /\ ReplIdle /\ PlaceIdle /\ QueryIdle /\ DataIdle /\ ClientIdle

NextSched ==
    \/ \E r \in RequestIds : Submit(r) /\ UNCHANGED <<leader_vars, repl_vars, place_vars, query_vars, data_vars, read_addrs, client_vars>>
    \/ Begin /\ UNCHANGED <<leader_vars, repl_vars, place_vars, query_vars, data_vars, read_addrs, client_vars>>
    \/ \E r \in RequestIds : Plan(r) /\ UNCHANGED <<leader_vars, repl_vars, place_vars, query_vars, data_vars, read_addrs, client_vars>>
    \/ \E r \in RequestIds, ok \in BOOLEAN : Commit(r, ok) /\ UNCHANGED <<leader_vars, repl_vars, place_vars, query_vars, data_vars, read_addrs, client_vars>>

SpecSched == InitSched /\ [][NextSched]_vars

(* The replicator against a log.                                            *)
InitRepl == LeaderIdle /\ SchedIdle /\ ReplInit /\ PlaceIdle /\ QueryIdle /\ DataIdle /\ ClientIdle

NextRepl ==
    \/ \E curr \in Positions, done \in SUBSET Snapshotted, ok \in BOOLEAN :
          StartMysql(curr, done, ok) /\ UNCHANGED <<leader_vars, sched_vars, place_vars, query_vars, data_vars, read_addrs, client_vars>>
    \/ \E curr \in Positions, ok \in BOOLEAN :
          StartPostgres(curr, ok) /\ UNCHANGED <<leader_vars, sched_vars, place_vars, query_vars, data_vars, read_addrs, client_vars>>
    \/ \E out \in Outcomes, txid \in TxIds : Stream(out, txid) /\ UNCHANGED <<leader_vars, sched_vars, place_vars, query_vars, data_vars, read_addrs, client_vars>>
    \/ CaughtUp /\ UNCHANGED <<leader_vars, sched_vars, place_vars, query_vars, data_vars, read_addrs, client_vars>>
    \/ Shutdown /\ UNCHANGED <<leader_vars, sched_vars, place_vars, query_vars, data_vars, read_addrs, client_vars>>

SpecRepl == InitRepl /\ [][NextRepl]_vars


(* A Leader elected over a stored state, under registrations and worker     *)
(* failures.                                                                *)
RecoverStates ==
    InitStates
    \cup {[recipes |-> <<{"t1"}, {"q1"}>>, recipe_version |-> 2, replication_offset |-> 1],
          [recipes |-> <<{"t1"}, {"t2"}>>, recipe_version |-> 2, replication_offset |-> NoOffset]}

InitRecover == LeaderFrom(RecoverStates) /\ SchedIdle /\ ReplIdle /\ PlaceIdle /\ QueryIdle /\ DataIdle /\ ClientIdle

NextRecover ==
    \/ \E w \in WorkerIds, pw \in WorkerIds, fail \in {"none", "migrate", "migrate_later"} :
          pw \in workers \cup {w} /\ Register(w, pw, fail) /\ RegisterOnly
    \/ \E failed \in (SUBSET workers) \ {{}}, pw \in WorkerIds,
          fail \in {"none", "migrate", "remove"} :
          FailedWorkers(failed, pw, fail) /\ LeaderOnly
    \/ \E rq \in GatedOps \cup NoEndpoint : NoQuorumRequest(rq) /\ LeaderOnly
    \/ \E rq \in {<<"POST", "/inputs">>, <<"POST", "/outputs">>} : ReadRequest(rq) /\ LeaderOnly
    \/ \E rq \in NoEndpoint : UnknownRequest(rq) /\ LeaderOnly

SpecRecover == InitRecover /\ [][NextRecover]_vars

(* The Leader under requests to replicate readers and to remove queries.    *)
ReaderWorkers == {NoWorker} \cup WorkerIds \cup {"w3"}
ReaderQueries == {<<"q1">>, <<"q1", "q2">>, <<"t1">>}

NextReaders ==
    \/ \E w \in WorkerIds : Register(w, w, "none") /\ RegisterOnly
    \/ \E txt \in {{"t1"}, {"t1", "q1"}}, pw \in workers :
          ExtendRecipe(txt, NoOffset, pw, "none") /\ LeaderOnly
    \/ \E q \in Queries, fail \in {"none", "remove", "authority"} :
          RemoveQuery(q, fail) /\ LeaderOnly
    \/ \E worker \in ReaderWorkers, queries \in ReaderQueries, pw \in workers,
          fail \in {"none", "migrate"} :
          ReplicateReaders(worker, queries, pw, fail) /\ LeaderOnly

SpecReaders == Init /\ [][NextReaders]_vars

(* The Leader placing domains on workers that registered with volumes.      *)
PlaceVolumes ==
    {[w \in WorkerIds |-> IF w = "w1" THEN "v1" ELSE v] : v \in Volumes \cup {NoVolume}}
PlaceIndexes == {1}
PlaceNodes == {{2}, {3}, {MaxNodes + 1}}
ShardWorkers == {<<a>> : a \in WorkerIds} \cup {<<a, b>> : a \in WorkerIds, b \in WorkerIds}

InitPlace ==
    /\ LeaderInit /\ SchedIdle /\ ReplIdle
    /\ volume_id \in PlaceVolumes
    /\ Unplaced
    /\ QueryIdle /\ DataIdle /\ ClientIdle

NextPlace ==
    \/ \E w \in WorkerIds : Register(w, w, "none") /\ RegisterOnly
    \/ ExtendRecipe({"t1", "q1"}, NoOffset, "w1", "none") /\ LeaderOnly
    \/ \E idx \in PlaceIndexes, shard_workers \in ShardWorkers, nodes \in PlaceNodes,
          run_fail \in {-1, 0, 1}, down \in {{}, {"w1"}} :
          Place(idx, shard_workers, nodes, run_fail, down)
             /\ UNCHANGED <<sched_vars, repl_vars, query_vars, data_vars, read_addrs, client_vars>>

SpecPlace == InitPlace /\ [][NextPlace]_vars

(* The query graph and the view key of the WHERE clauses.                   *)
InitQuery == LeaderIdle /\ SchedIdle /\ ReplIdle /\ PlaceIdle /\ QueryInit /\ DataIdle /\ ClientIdle

NextQuery ==
    \/ ToQueryGraph /\ UNCHANGED <<leader_vars, sched_vars, repl_vars, place_vars, data_vars, read_addrs, client_vars>>
    \/ \E order \in IterationOrders :
          ViewKey(order) /\ UNCHANGED <<leader_vars, sched_vars, repl_vars, place_vars, data_vars, read_addrs, client_vars>>

SpecQuery == InitQuery /\ [][NextQuery]_vars

(* Two values of DataType and their comparison.                             *)
InitData == LeaderIdle /\ SchedIdle /\ ReplIdle /\ PlaceIdle /\ QueryIdle /\ DataInit /\ ClientIdle

NextData ==
    \/ Cmp /\ UNCHANGED <<leader_vars, sched_vars, repl_vars, place_vars, query_vars, read_addrs, client_vars>>
    \/ CmpSwapped /\ UNCHANGED <<leader_vars, sched_vars, repl_vars, place_vars, query_vars, read_addrs, client_vars>>

SpecData == InitData /\ [][NextData]_vars

(* remove_leaf on a graph of operators and readers.                         *)
InitRemove == RemoveInit /\ SchedIdle /\ ReplIdle /\ PlaceIdle /\ QueryIdle /\ DataIdle /\ ClientIdle

NextRemove ==
    \E start \in ShapeNodes, rpc_ok \in BOOLEAN :
        RemoveLeafCall(start, rpc_ok) /\ UNCHANGED <<sched_vars, repl_vars, query_vars, data_vars, read_addrs, client_vars>>

SpecRemove == InitRemove /\ [][NextRemove]_vars

(* The Leader with a third worker, under worker failures, replicated        *)
(* readers and view requests.                                               *)
ViewWorkers == WorkerIds \cup {"w3"}

NextView ==
    \/ \E w \in ViewWorkers : Register(w, w, "none") /\ RegisterOnly
    \/ \E pw \in workers : ExtendRecipe({"t1", "q1"}, NoOffset, pw, "none") /\ LeaderOnly
    \/ \E worker \in workers, pw \in workers :
          ReplicateReaders(worker, <<"q1">>, pw, "none") /\ LeaderOnly
    \/ \E w \in workers, pw \in ViewWorkers, fail \in {"none", "migrate"} :
          FailedWorkers({w}, pw, fail) /\ LeaderOnly
    \/ \E name \in ViewNames, filter \in ViewFilters : ViewBuilder(name, filter) /\ LeaderOnly

SpecView == Init /\ [][NextView]_vars

(* The connectors of two connections looking up statements.                 *)
InitClient ==
    /\ LeaderIdle /\ SchedIdle /\ ReplIdle /\ PlaceIdle /\ QueryIdle /\ DataIdle
    /\ ClientInit

NextClient ==
    \/ \E c \in Connectors, q \in SelectStatements :
          Lookup(c, q) /\ UNCHANGED <<leader_vars, sched_vars, repl_vars, place_vars, query_vars, data_vars, read_addrs>>
    \/ \E c \in Connectors, ok \in BOOLEAN :
          Answered(c, ok) /\ UNCHANGED <<leader_vars, sched_vars, repl_vars, place_vars, query_vars, data_vars, read_addrs>>

SpecClient == InitClient /\ [][NextClient]_vars
----------------------------------------------------------------------------
(* The quorum gate of external_request.                                     *)

C1_NoQuorumState == pending_recovery.some \/ Cardinality(workers) < Quorum

C1_Answers ==
    \A rq \in Requests :
        /\ rq \in Introspection => Arm(rq) = "introspection"
        /\ (rq \notin Introspection /\ C1_NoQuorumState) => Arm(rq) = "NoQuorum"

C1_Steps ==
    /\ last_op'.res = "NoQuorum" =>
          /\ C1_NoQuorumState
          /\ UNCHANGED <<workers, pending_recovery, recipe, replication_offset,
                         ingredients, edges, domains, table_offsets, auth>>
    /\ (/\ last_op'.op \in {rq[2] : rq \in GatedOps} \cup {"read", "request"}
        /\ last_op'.res # "NoQuorum") => ~C1_NoQuorumState
    /\ last_op'.op = "introspection" =>
          UNCHANGED <<workers, pending_recovery, recipe, replication_offset,
                      ingredients, edges, domains, table_offsets, auth>>

\* C1: while workers.len() < quorum or pending_recovery is set,
\* external_request answers NoQuorum to every request but those of the
\* introspection endpoints, a request turned away changes neither the graph,
\* the recipe, the replication offset nor the authority's state, and no
\* gated arm runs; the introspection endpoints are answered in every state.
C1_QuorumGate == []C1_Answers /\ [][C1_Steps]_vars

C1_Witness ==
    /\ last_op = Op("/install_recipe", "NoQuorum", NoOffset)
    /\ Cardinality(workers) = 1
    /\ ~pending_recovery.some

----------------------------------------------------------------------------
(* One migration at a time.                                                 *)

C2_Contiguous ==
    \A i, k \in 1..Len(trace) :
        (i < k /\ trace[i][1] = trace[k][1]) =>
            \A j \in i..k : trace[j][1] = trace[i][1]

C2_StartsAfterEnd ==
    \A k \in 1..Len(trace) :
        trace[k][2] = "start" =>
            \A i \in 1..(k - 1) :
                trace[i][1] # trace[k][1] =>
                    \E j \in i..(k - 1) : /\ trace[j][1] = trace[i][1]
                                          /\ trace[j][2] \in {"finish", "abort"}

\* C2: at most one migration is in progress at any time; a request starts
\* only after every migration begun before it has committed or failed, and
\* the steps of one request are never interleaved with those of another.
C2_NoInterleaving ==
    /\ Cardinality(running) <= 1
    /\ C2_Contiguous
    /\ C2_StartsAfterEnd

C2_Witness ==
    /\ \E r \in running : progress[r] = "planned"
    /\ queue # << >>
    /\ \E i \in 1..Len(trace) : trace[i][2] \in {"finish", "abort"}

----------------------------------------------------------------------------
(* What Leader::replication_offset returns.                                 *)

\* the offsets the Leader observes: its schema offset and those reported
C3_Observed == ({replication_offset} \cup Reported) \ {NoOffset}

\* the offsets of the base tables, NoOffset for a table never written
C3_BaseOffsets ==
    {table_offsets[ingredients[n].name] : n \in {x \in Inputs : IsBase(ingredients, x)}}

C3_Returned == last_op.op = "/replication_offset" /\ last_op.res = "ok"

\* C3: replication_offset() returns the maximum of the schema offset and of
\* the offsets the base tables report, and None only when there is none of
\* them; the value is greater than or equal to every offset observed.
C3_ReturnsMaximum ==
    C3_Returned =>
        IF C3_Observed = {} THEN last_op.off = NoOffset
        ELSE /\ last_op.off \in C3_Observed
             /\ \A o \in C3_Observed : o <= last_op.off

C3_Witness == C3_Returned /\ Cardinality(C3_Observed) >= 2

\* C3 as the specification has it: the minimum over the base tables, None
\* when one of them was never written
C3_ReturnsMinimum ==
    C3_Returned =>
        /\ NoOffset \in C3_BaseOffsets => last_op.off = NoOffset
        /\ \A o \in C3_Observed : last_op.off <= o

C4_Lowering == ReplicationOffsetValue' < ReplicationOffsetValue

\* C4: neither extend_recipe nor a replicated table write lowers the value
\* replication_offset() returns.
C4_ExtendAndWritesNeverLower ==
    [][last_op'.op \in {"/extend_recipe", "table_write"} => ~C4_Lowering]_vars

C4_Witness ==
    /\ last_op.op = "/extend_recipe" /\ last_op.res = "ok"
    /\ IsSome(last_op.off)
    /\ last_op.off < ReplicationOffsetValue

\* C4 as the specification has it: no operation of the Leader lowers the
\* value
C4_NeverDecreases ==
    [][last_op'.op \in {"/extend_recipe", "/install_recipe", "/set_replication_offset",
                        "table_write"} => ~C4_Lowering]_vars
----------------------------------------------------------------------------
(* The replicator's treatment of offsets.                                   *)

\* C5: a table action is applied only when its offset lies after the stored
\* offset of its table.
C5_AppliesOnlyAfterOffset == r_last.op = "apply" => r_last.pos > r_last.off

\* C6: a start that finds an offset for the schema and for every table
\* streams from the minimum of them.
C6_StartsAtMinimum ==
    (r_last.op = "start" /\ AllPresent(replication_offsets)) =>
        r_last.pos = min_present_offset(replication_offsets)

----------------------------------------------------------------------------
(* The schema offset under extend_recipe, install_recipe and                *)
(* set_replication_offset.                                                  *)

C7_Max(a, b) == IF a >= b THEN a ELSE b

C7_Merged ==
    /\ replication_offset' = C7_Max(replication_offset, last_op'.off)
    /\ auth'.replication_offset = C7_Max(auth.replication_offset, last_op'.off)

C7_NotLowered ==
    /\ replication_offset' >= replication_offset
    /\ auth'.replication_offset >= auth.replication_offset

\* C7: a successful extend_recipe carrying offset o leaves max(previous, o)
\* in the Leader's schema offset and in the authority, and no extend_recipe
\* lowers either.
C7_ExtendMaxMerges ==
    [][/\ (last_op'.op = "/extend_recipe" /\ last_op'.res = "ok") => C7_Merged
       /\ last_op'.op = "/extend_recipe" => C7_NotLowered]_vars

C7_Witness ==
    /\ last_op.op = "/extend_recipe" /\ last_op.res = "ok"
    /\ IsSome(last_op.off)
    /\ last_op.off < auth.replication_offset
    /\ auth.replication_offset = replication_offset

C8_Installed == last_op'.op = "/install_recipe" /\ last_op'.res = "ok"

C8_Overwritten ==
    /\ replication_offset' = last_op'.off
    /\ auth'.replication_offset = last_op'.off

\* C8: a successful install_recipe carrying offset o (possibly none) leaves
\* o in the Leader's schema offset and in the authority whatever they held;
\* a table that the old and the new recipe both hold keeps its offset.
C8_InstallOverwrites ==
    [][C8_Installed =>
          /\ C8_Overwritten
          /\ \A t \in Tables :
                (t \in recipe.stmts /\ t \in recipe'.stmts) =>
                    table_offsets'[t] = table_offsets[t]]_vars

C8_Witness ==
    /\ last_op = Op("/install_recipe", "ok", NoOffset)
    /\ \E t \in Tables : IsSome(table_offsets[t])

\* C8 as the specification has it: every table offset is cleared
C8_InstallClearsTables ==
    [][C8_Installed =>
          /\ C8_Overwritten
          /\ \A t \in Tables : table_offsets'[t] = NoOffset]_vars

\* C9: after set_replication_offset has returned, the Leader's schema
\* offset equals the one stored in the authority.
C9_Atomic ==
    last_op.op = "/set_replication_offset" =>
        replication_offset = auth.replication_offset

----------------------------------------------------------------------------
(* Failed recipe changes.                                                   *)

\* C10: when extend_recipe, install_recipe or remove_query fails because the
\* text does not parse or the recipe cannot be applied, the Leader's recipe
\* and replication offset are those before the call and the authority's
\* state is untouched.
C10_FailureRestores ==
    [][(/\ last_op'.op \in {"/extend_recipe", "/install_recipe", "/remove_query"}
        /\ last_op'.res \in {"parse_err", "apply_err"}) =>
          /\ recipe' = recipe
          /\ replication_offset' = replication_offset
          /\ auth' = auth]_vars

C10_Witness ==
    /\ last_op.op \in {"/extend_recipe", "/install_recipe", "/remove_query"}
    /\ last_op.res = "apply_err"
    /\ recipe.stmts # {}
----------------------------------------------------------------------------
(* Migrations that fail half-way.                                           *)

\* C11: when a migration fails, the Leader's graph and recipe are those
\* before the call.
C11_AllOrNothing ==
    [][(/\ last_op'.op \in {"/extend_recipe", "/install_recipe", "/remove_query"}
        /\ last_op'.res = "apply_err") =>
          UNCHANGED <<ingredients, edges, domains, recipe>>]_vars

\* C12: after an operation of the Leader has completed, the recipe version
\* and the replication offset stored in the authority are those the Leader
\* holds in memory.
C12_DurableMatchesMemory ==
    (/\ ~crashed
     /\ last_op.res = "ok"
     /\ last_op.op \in {"register", "failed_workers", "/extend_recipe", "/install_recipe",
                        "/remove_query", "/set_replication_offset"}
     /\ ~pending_recovery.some) =>
        /\ auth.recipe_version = recipe.version
        /\ auth.replication_offset = replication_offset

\* C13: when a recipe change was applied in memory and the authority update
\* failed, the Leader has panicked.
C13_PanicsWhenNotPersisted ==
    (/\ last_op.op \in {"/extend_recipe", "/install_recipe", "/remove_query"}
     /\ last_op.res = "internal") => crashed

----------------------------------------------------------------------------
(* Recovery at registration.                                                *)

RECURSIVE C14_Stored(_)
C14_Stored(recipes) ==
    IF recipes = << >> THEN {} ELSE Head(recipes) \cup C14_Stored(Tail(recipes))

C14_Drained == pending_recovery.some /\ ~pending_recovery'.some

C14_Steps ==
    /\ C14_Drained =>
          /\ last_op'.op = "register"
          /\ Cardinality(workers) < Quorum
          /\ Cardinality(workers') = Quorum
    /\ (pending_recovery.some /\ Cardinality(workers') >= Quorum) => C14_Drained
    /\ (C14_Drained /\ last_op'.res = "ok") =>
          /\ recipe'.stmts = C14_Stored(pending_recovery.recipes)
          /\ recipe'.stmts \subseteq DOMAIN recipe'.addr
          /\ recipe'.prior[1].stmts =
                C14_Stored(SubSeq(pending_recovery.recipes, 1,
                                  Len(pending_recovery.recipes) - 1))

\* C14: the stored recipes are replayed, in their order, by the registration
\* that raises the number of workers to the quorum and by no other step;
\* until then nothing of them is installed, and after a successful replay
\* pending_recovery is empty and every stored recipe is installed.
C14_ReplayAtQuorum ==
    /\ [](pending_recovery.some => (recipe.stmts = {} /\ Len(ingredients) = 1))
    /\ [][C14_Steps]_vars

C14_Witness ==
    /\ last_op = Op("register", "ok", NoOffset)
    /\ ~pending_recovery.some
    /\ recipe.stmts = {"t1", "q1"}
    /\ Cardinality(workers) = Quorum

----------------------------------------------------------------------------
(* Worker failures.                                                         *)

C15_Live(s) ==
    /\ s \in DOMAIN recipe'.addr
    /\ ingredients'[recipe'.addr[s]].kind # "dropped"

C15_Handled(failed) ==
    /\ workers' \cap failed = {}
    /\ workers' = workers \ failed
    /\ recipe'.prior[1].stmts = recipe.stmts \ Affected(failed)
    /\ recipe'.stmts = recipe.stmts
    /\ \A s \in recipe'.stmts : C15_Live(s)

----------------------------------------------------------------------------
(* Recipe versions.                                                         *)

\* C16: every extend_recipe and every install_recipe that returns Ok leaves
\* the Leader's recipe one version above the one before the call, and the
\* recipe_version it has written to the authority is that new version.
C16_VersionRaisedByOne ==
    [][(/\ last_op'.op \in {"/extend_recipe", "/install_recipe"}
        /\ last_op'.res = "ok") =>
          /\ recipe'.version = recipe.version + 1
          /\ auth'.recipe_version = recipe'.version]_vars

C16_Witness ==
    /\ last_op.op \in {"/extend_recipe", "/install_recipe"}
    /\ last_op.res = "ok"
    /\ recipe.version = MaxVersion
    /\ auth.recipe_version = MaxVersion
    /\ recipe.prior # << >>
    /\ recipe.prior[1].version = MaxVersion - 1

----------------------------------------------------------------------------
(* Reader replication and the removal of queries.                           *)

\* C17 as the specification has it: remove_query of an installed query
\* returns Ok and leaves no live reader for it, also after replicate_readers
\* has added mirrors.
C17_RemoveQueryAlwaysSucceeds ==
    [][\A q \in Queries, fail \in {"none"} :
          (RemoveQuery(q, fail) /\ q \in recipe.stmts /\ q \in DOMAIN recipe.addr) =>
              /\ last_op'.res = "ok"
              /\ \A n \in 1..Len(ingredients') :
                    ~(ingredients'[n].kind = "reader" /\ ingredients'[n].name = q)
              /\ auth'.recipes = <<recipe'.stmts>>]_vars

C18_Unknown(worker) == worker # NoWorker /\ worker \notin workers
C18_Unresolved(queries) == \E i \in 1..Len(queries) : queries[i] \notin DOMAIN recipe.addr

C18_Rejected(worker, queries) ==
    /\ C18_Unknown(worker) => last_op'.res = "ReplicationUnknownWorker"
    /\ (~C18_Unknown(worker) /\ C18_Unresolved(queries)) => last_op'.res = "BadRequest"
    /\ (C18_Unknown(worker) \/ C18_Unresolved(queries)) =>
           UNCHANGED <<ingredients, edges, domains, recipe, auth>>

\* C18: replicate_readers for a worker that is not registered returns
\* ReplicationUnknownWorker, and for a query name that resolves to no node it
\* returns BadRequest; in both cases the graph and the domains are those
\* before the call, whatever else the request names.
C18_ValidatesFirst ==
    [][\A worker \in ReaderWorkers, queries \in ReaderQueries, pw \in WorkerIds,
          fail \in {"none", "migrate"} :
          ReplicateReaders(worker, queries, pw, fail) => C18_Rejected(worker, queries)]_vars

C18_Witness ==
    /\ last_op = Op("/replicate_readers", "BadRequest", NoOffset)
    /\ "q1" \in DOMAIN recipe.addr
    /\ Cardinality(MirroredReaders(G, recipe.addr["q1"], "q1")) = 1

----------------------------------------------------------------------------
(* The placement of domains.                                                *)

C19_Restricted(b, shard) == node_restrictions[<<b, shard>>] # NoVolume

C19_Shard(b, shard, w) ==
    /\ (C19_Restricted(b, shard) /\ last_op'.res = "ok") =>
           volume_id[w] = node_restrictions[<<b, shard>>]
    /\ (C19_Restricted(b, shard) /\ volume_id[w] # node_restrictions[<<b, shard>>]) =>
           /\ last_op'.res = "NoAvailableWorkers"
           /\ node_restrictions' = node_restrictions
    /\ (last_op'.res = "ok" /\ volume_id[w] # NoVolume) =>
           node_restrictions'[<<b, shard>>] = volume_id[w]

C20_Gossips == {j \in 1..Len(rpc_log') : rpc_log'[j].kind = "GossipDomainInformation"}

C20_Booted(idx, shard) ==
    /\ <<idx, shard>> \in channel_coordinator'
    /\ \E j \in 1..Len(rpc_log') \ C20_Gossips :
          /\ rpc_log'[j] = Rpc("RunDomain", rpc_log'[j].to, idx, {shard}, TRUE)
          /\ j < Len(rpc_log')
          /\ rpc_log'[j + 1] = Rpc("insert_remote", rpc_log'[j].to, idx, {shard}, TRUE)

\* no gossip before every shard is booted and recorded
C20_Ordered(idx, nshards) ==
    C20_Gossips # {} =>
        /\ \A j \in C20_Gossips, i \in 1..Len(rpc_log') \ C20_Gossips : i < j
        /\ \A shard \in 0..(nshards - 1) : C20_Booted(idx, shard)

C20_ToldEachShard(idx, nshards) ==
    last_op'.res = "ok" =>
        /\ \A w \in workers, shard \in 0..(nshards - 1) :
              \E j \in C20_Gossips :
                  /\ rpc_log'[j].to = w /\ rpc_log'[j].idx = idx
                  /\ rpc_log'[j].shards = {shard}
        /\ \A j \in C20_Gossips : Cardinality(rpc_log'[j].shards) = 1

C20_ToldInOneMessage(idx, nshards) ==
    last_op'.res = "ok" =>
        \A w \in workers :
            \E j \in C20_Gossips :
                /\ rpc_log'[j].to = w /\ rpc_log'[j].idx = idx
                /\ rpc_log'[j].shards = 0..(nshards - 1)

\* C20, amended: place_domain sends no GossipDomainInformation before the
\* RunDomain of every shard has returned and its address is in the channel
\* coordinator; when it returns Ok every registered worker has been sent the
\* descriptor of every shard, one message for each descriptor, whether or not
\* the messages to some worker failed.
C20_GossipAfterBoot ==
    [][last_op'.op = "place_domain" =>
          /\ C20_Ordered(placing'.idx, Len(placing'.shard_workers))
          /\ C20_ToldEachShard(placing'.idx, Len(placing'.shard_workers))]_vars

\* C20 as the specification has it: the same, with all shards of the domain
\* arriving at a worker in one GossipDomainInformation message.
C20_OneMessagePerWorker ==
    [][last_op'.op = "place_domain" =>
          /\ C20_Ordered(placing'.idx, Len(placing'.shard_workers))
          /\ C20_ToldInOneMessage(placing'.idx, Len(placing'.shard_workers))]_vars

C20_Witness ==
    /\ last_op = Op("place_domain", "ok", NoOffset)
    /\ workers = WorkerIds
    /\ Len(rpc_log) = 8
    /\ rpc_log[5] = Rpc("GossipDomainInformation", "w1", 1, {0}, FALSE)
    /\ rpc_log[8] = Rpc("GossipDomainInformation", "w2", 1, {1}, TRUE)

----------------------------------------------------------------------------
(* The replicator applying the log.                                         *)

C21_Published(t, pos, txid) ==
    timestamp' # NoTimestamp =>
        /\ txid # NoTx
        /\ timestamp' = <<t, txid>>
        /\ t \in Tables
        /\ rows'[t] = Append(rows[t], pos)
        /\ stored'.tables[t] = pos

C21_Failed(out) ==
    (out \in {"err", "invariant"}) =>
        /\ timestamp' = NoTimestamp
        /\ rows' = rows
        /\ replication_offsets' = replication_offsets

\* C21: a timestamp for the txid of a table action is published only in a
\* step in which perform_all has put the action's rows and its offset into
\* the table; when perform_all fails no timestamp is published and the
\* replicator's offset of the table stays as it was.
C21_TimestampAfterPerform ==
    [][\A out \in Outcomes, txid \in TxIds :
          (Stream(out, txid) /\ upstream[connector + 1].kind = "table") =>
              /\ C21_Published(upstream[connector + 1].table, connector + 1, txid)
              /\ C21_Failed(out)]_vars

C21_Witness ==
    /\ timestamp = <<"t1", 1>>
    /\ r_last.op = "apply" /\ r_last.table = "t1"
    /\ rows["t1"] # << >>
    /\ rows["t1"][Len(rows["t1"])] = r_last.pos
    /\ stored.tables["t1"] = r_last.pos

\* C22: after a LogPosition at pos has been handled without an error, the
\* schema offset Noria holds is pos and every table's offset is pos, in the
\* replicator's own offsets and in the base tables.
C22_LogPositionAdvancesAll ==
    r_last.op = "log" =>
        /\ stored.schema = r_last.pos
        /\ replication_offsets.schema = r_last.pos
        /\ \A t \in Tables :
              /\ replication_offsets.tables[t] = r_last.pos
              /\ stored.tables[t] = r_last.pos

C22_Witness ==
    /\ r_last.op = "log"
    /\ r_last.pos > 1
    /\ upstream[r_last.pos].kind = "log"
    /\ \E t \in Tables : rows[t] # << >>
    /\ \A t \in Tables : stored.tables[t] = r_last.pos

\* C23: a TableAction for a table Noria does not have performs no table
\* operation, returns without an error, leaves every offset as it was and moves
\* the position to the action's offset; the warning is given at most once per
\* table name by one adapter, from its connection to its end.
C23_Missing(t) ==
    /\ r_last'.op = "missing"
    /\ r_pc' = r_pc
    /\ rows' = rows
    /\ stored' = stored
    /\ replication_offsets' = replication_offsets
    /\ position' = connector + 1
    /\ connector' = connector + 1
    /\ t \in warned_missing_tables'
    /\ warn_log' = IF t \in warned_missing_tables THEN warn_log ELSE Append(warn_log, t)

C23_WarnsOncePerAdapter ==
    [][\A out \in Outcomes, txid \in TxIds :
          (/\ Stream(out, txid)
           /\ upstream[connector + 1].kind = "table"
           /\ upstream[connector + 1].table \notin Tables)
          => C23_Missing(upstream[connector + 1].table)]_vars

\* the second action of one connection for the same missing table: no warning
C23_Witness ==
    /\ r_last.op = "missing"
    /\ r_last.pos > 1
    /\ upstream[r_last.pos - 1] = upstream[r_last.pos]
    /\ position = r_last.pos
    /\ restarts = 1
    /\ warn_log = <<r_last.table>>

\* C23 as stated: one warning per table name over the whole run
C23_WarnsOnceOverall ==
    \A i, j \in DOMAIN warn_log : warn_log[i] = warn_log[j] => i = j

\* C24: once an action has failed with RecipeInvariantViolated the replicator
\* is down and is not started again.
C24_StaysTerminated ==
    [][r_last.op = "fatal" => (r_pc' = "down" /\ r_last'.op # "start")]_vars

\* C25: an error of handle_action that is no invariant violation ends the
\* streaming of the adapter, to be followed by a reconnect.
C25_ErrorReconnects ==
    [][(r_last'.op = "error" /\ connector' # connector) => r_pc' = "down"]_vars

\* C26: the ready notification is fired only when the schema and every table
\* have been snapshotted, so never in an attempt whose snapshot has failed.
C26_ReadyAfterSnapshot ==
    [][(ready' /\ ~ready) => AllPresent(stored')]_vars

\* C27: a request <<method, path>> that is no endpoint is answered with
\* UnknownEndpoint when the Leader has its quorum and no recovery is pending,
\* and with NoQuorum otherwise.
C27_UnknownEndpointWithQuorum ==
    [][\A rq \in NoEndpoint :
          (UnknownRequest(rq) \/ NoQuorumRequest(rq))
          => last_op'.res = IF pending_recovery.some \/ Cardinality(workers) < Quorum
                            THEN "NoQuorum" ELSE "UnknownEndpoint"]_vars

C27_Witness ==
    /\ last_op = Op("request", "UnknownEndpoint", NoOffset)
    /\ Cardinality(workers) >= Quorum
    /\ ~pending_recovery.some
    /\ recipe.version > 0

\* C27 as stated: UnknownEndpoint with or without the quorum
C27_AlwaysUnknownEndpoint ==
    [][\A rq \in NoEndpoint :
          (UnknownRequest(rq) \/ NoQuorumRequest(rq))
          => last_op'.res = "UnknownEndpoint"]_vars

----------------------------------------------------------------------------
(* The view key and the classification of the WHERE clause.                 *)

C28_Ops ==
    UNION {{qg.relations[t].parameters[k].op : k \in 1..Len(qg.relations[t].parameters)} :
             t \in QueryTables}

C28_RangeOps == {">", ">=", "<", "<="}
C28_Mixed == "=" \in C28_Ops /\ C28_Ops \cap C28_RangeOps # {}

\* C28: view_key rejects a query that has an equality parameter and a range
\* parameter with Unsupported; it returns Unsupported when the operators of
\* two parameters ask for different index types or when the query aggregates
\* and has a parameter that is no equality, and a key it returns has the one
\* index type of its operators.
C28_MixedIsUnsupported ==
    (key.err # "unasked" /\ C28_Ops # {}) =>
        /\ C28_Mixed => key.err = "Unsupported"
        /\ key.err = "Unsupported" <=>
              \/ C28_Mixed
              \/ qg.aggregates /\ C28_Ops # {"="}
        /\ key.err = "" =>
              \/ C28_Ops = {"="} /\ key.index_type = "HashMap"
              \/ C28_Ops \subseteq C28_RangeOps /\ key.index_type = "BTreeMap"

C28_Witness ==
    /\ key.err = "Unsupported"
    /\ key.msg = "Conflicting binary operators in query"
    /\ ~qg.aggregates
    /\ C28_Ops = {"=", ">"}
    /\ qg.relations["t2"].parameters # << >>

\* C28 as stated: an equality and a range parameter give a hash-map key with
\* the range column last
C28_MixedIsHashMap ==
    (key.err # "unasked" /\ C28_Mixed /\ ~qg.aggregates) =>
        /\ key.err = ""
        /\ key.index_type = "HashMap"
        /\ key.columns[Len(key.columns)][2] = "b"

\* the parameters as the text of the query has them: column and placeholder
C29_InText ==
    {<<select_statement.where_clause[i].ltable, select_statement.where_clause[i].col,
       TextPos(i)>> :
        i \in {j \in Places : /\ select_statement.where_clause[j].rhs = "placeholder"
                              /\ select_statement.where_clause[j].lhs = "column"}}

\* C29: the columns of a view key are the parameter columns of the query, each
\* once and with its placeholder index; the parameters of one relation stand
\* together and in the order of the query text, and the relations follow one
\* another in the order in which the map of the relations is iterated.
C29_ColumnsPerRelation ==
    (key.err = "" /\ C29_InText # {}) =>
        /\ {key.columns[k] : k \in 1..Len(key.columns)} = C29_InText
        /\ Len(key.columns) = Cardinality(C29_InText)
        /\ \A k, l \in 1..Len(key.columns) :
              (k < l /\ key.columns[k][1] = key.columns[l][1]) =>
                  /\ key.columns[k][3] < key.columns[l][3]
                  /\ \A n \in k..l : key.columns[n][1] = key.columns[k][1]

\* parameters of two relations, handed out against the order of the text
C29_Witness ==
    /\ key.err = ""
    /\ Len(key.columns) = 3
    /\ key.columns[1][1] = "t1"
    /\ key.columns[2][1] = "t1"
    /\ key.columns[3][1] = "t2"
    /\ key.columns[3][3] < key.columns[1][3]
    /\ key.columns[1][3] < key.columns[2][3]

\* C29 as stated: the key columns in the order of the query text, whatever
\* the iteration order
C29_ColumnsInTextOrder ==
    (key.err = "" /\ C29_InText # {}) =>
        \A k, l \in 1..Len(key.columns) :
            k < l => key.columns[k][3] < key.columns[l][3]

\* what the text of the WHERE clause shows of the expression at place i
C30_Under(i) == {j \in Places : j \in {i, 2 * i, 2 * i + 1, 4 * i, 4 * i + 1, 4 * i + 2, 4 * i + 3}}
C30_Node(j) == select_statement.where_clause[j]
C30_Atoms(i) == {j \in C30_Under(i) : C30_Node(j).op \notin LogicalOps \cup {""}}
C30_Ors(i) == {j \in C30_Under(i) : C30_Node(j).op = "OR"}
C30_Param(j) == C30_Node(j).rhs = "placeholder" /\ C30_Node(j).lhs = "column"
C30_Join(j) ==
    /\ C30_Node(j).rhs = "column" /\ C30_Node(j).lhs = "column"
    /\ C30_Node(j).ltable # NoTable /\ C30_Node(j).rtable # NoTable
    /\ C30_Node(j).ltable # C30_Node(j).rtable
C30_Computed(j) ==
    \/ C30_Node(j).rhs = "column" /\ ~C30_Join(j)
    \/ C30_Node(j).rhs = "literal" /\ C30_Node(j).lhs = "column" /\ C30_Node(j).ltable = NoTable
\* a comparison whose left-hand side is no column
C30_NoColumn(j) == C30_Node(j).lhs # "column"
C30_Tables(i) ==
    {C30_Node(j).ltable : j \in {n \in C30_Atoms(i) : /\ C30_Node(n).rhs = "literal"
                                                      /\ C30_Node(n).lhs = "column"
                                                      /\ C30_Node(n).ltable # NoTable}}
C30_HasGlobal(i) ==
    \/ \E j \in C30_Atoms(i) : C30_Computed(j)
    \/ \E j \in C30_Ors(i) \ {i} : C30_Tables(j) = {}
\* an operand that adds no predicate
C30_Adds(k) == C30_Node(k).op = "OR" \/ \E j \in C30_Atoms(k) : ~C30_NoColumn(j)
\* an OR over one table with an operand that adds no predicate
C30_OneSided(j) ==
    /\ Cardinality(C30_Tables(j)) = 1 /\ ~C30_HasGlobal(j)
    /\ ~C30_Adds(2 * j) \/ ~C30_Adds(2 * j + 1)
C30_Rejected(i) ==
    \/ \E j \in C30_Atoms(i) : C30_Param(j) \/ C30_Join(j)
    \/ \E j \in C30_Ors(i) : C30_OneSided(j)
C30_Named(e) == {e[k] : k \in 1..Len(e)} \ LogicalOps

C30_OrAt(i, res) ==
    IF C30_Rejected(i) THEN res.err = "Unsupported"
    ELSE /\ res.err = "" /\ res.join = << >> /\ res.params = << >>
         /\ IF Cardinality(C30_Tables(i)) = 1 /\ ~C30_HasGlobal(i)
            THEN /\ res.global = << >>
                 /\ \A t \in QueryTables :
                       IF t \in C30_Tables(i)
                       THEN /\ Len(res.local[t]) = 1
                            /\ res.local[t][1][1] = "OR"
                            /\ C30_Named(res.local[t][1])
                                  = {PlaceName[j] : j \in {n \in C30_Atoms(i) : ~C30_NoColumn(n)}}
                       ELSE res.local[t] = << >>
            ELSE res.global = <<Clone(select_statement.where_clause, i)>> /\ res.local = NoLocal

\* C30: an OR, at any depth, is Unsupported if it holds a parameter or a join
\* predicate below it, or if it is an OR over one table one of whose operands
\* adds no predicate; otherwise an OR over one single table without a global
\* predicate becomes one local predicate of that table, the OR of what its
\* operands have added, and every other OR becomes a global predicate as a
\* whole.
C30_OrClassified ==
    /\ \A i \in {1, 2, 3} :
          select_statement.where_clause[i].op = "OR" =>
              C30_OrAt(i, classify_conditionals(select_statement.where_clause, i))
    /\ (qg.err # "unbuilt" /\ select_statement.where_clause[1].op = "OR") =>
          /\ qg.err = classify_conditionals(select_statement.where_clause, 1).err
          /\ qg.global_predicates = classify_conditionals(select_statement.where_clause, 1).global

C30_Witness ==
    /\ select_statement.where_clause[1].op = "OR"
    /\ select_statement.where_clause[2].op = "AND"
    /\ qg.err = ""
    /\ qg.relations["t1"].predicates = <<Clone(select_statement.where_clause, 1)>>
    /\ qg.global_predicates = << >>

C30_AsStated(i, res) ==
    IF \E j \in C30_Atoms(i) : C30_Param(j) \/ C30_Join(j) THEN res.err = "Unsupported"
    ELSE IF /\ \E t \in QueryTables : C30_Tables(2 * i) = {t} /\ C30_Tables(2 * i + 1) = {t}
            /\ ~C30_HasGlobal(i)
    THEN /\ res.err = ""
         /\ \A t \in QueryTables :
               res.local[t] = IF t \in C30_Tables(i)
                              THEN <<Clone(select_statement.where_clause, i)>> ELSE << >>
    ELSE res.err = "" /\ res.global = <<Clone(select_statement.where_clause, i)>>

\* C30 as stated
C30_OrLocalOrGlobal ==
    \A i \in {1, 2, 3} :
        select_statement.where_clause[i].op = "OR" =>
            C30_AsStated(i, classify_conditionals(select_statement.where_clause, i))

\* the families of values, in the order the specification gives them
C31_Family(d) ==
    IF d.tag \in Integral THEN 1
    ELSE IF d.tag = "Real" THEN 2
    ELSE IF d.tag \in Textual THEN 3
    ELSE IF d.tag = "Timestamp" THEN 4
    ELSE 5

C31_Reverse(o) == IF o = "Less" THEN "Greater" ELSE IF o = "Greater" THEN "Less" ELSE o

\* C31: cmp is a total order: cmp(a, b) is the reverse of cmp(b, a), and values
\* of different families compare as Numeric < FixedPoint < Text < Timestamp <
\* NULL.
C31_TotalOrder ==
    ordering # NoOrdering =>
        /\ ordering = C31_Reverse(cmp(data_other, data_self))
        /\ C31_Family(data_self) < C31_Family(data_other) => ordering = "Less"
        /\ C31_Family(data_self) > C31_Family(data_other) => ordering = "Greater"

\* a step in which ready_notify.notify_one() is called: a start that has
\* nothing to catch up, or the end of the catch-up
C32_Notifies ==
    \/ r_last' # r_last /\ r_last'.op = "ready"
    \/ restarts' = restarts + 1 /\ r_last'.op = "start" /\ r_pc' = "streaming"

\* C32: one adapter fires the ready notification at most once, before it
\* streams: when it starts with nothing to catch up or when its catch-up ends;
\* an adapter that streams has fired it and fires no more.  An adapter started
\* after a failure fires it again.
C32_OncePerAdapter ==
    /\ [][C32_Notifies => (r_pc \in {"down", "catchup"} /\ r_pc' = "streaming" /\ ready')]_vars
    /\ [](r_pc = "streaming" => ready)

\* the second adapter of the term has fired the notification at the end of its
\* catch-up
C32_Witness ==
    /\ restarts = 2
    /\ ready
    /\ r_last.op = "ready"

\* C32 as stated: the notification is fired at most once in a Leader term.
C32_FiredAtMostOnce ==
    [][C32_Notifies => ~ready]_vars

----------------------------------------------------------------------------
(* The removal of a leaf.                                                   *)

\* the nodes the step has marked as removed
C33_Removed ==
    {n \in 1..Len(ingredients) :
        ingredients[n].kind # "dropped" /\ ingredients'[n].kind = "dropped"}

\* the node the walk starts at: the leaf, or its reader
C33_Leaf(start) ==
    IF Children(edges, start) = {} \/ ReadersFor(G, start) = {} THEN start
    ELSE CHOOSE r \in ReadersFor(G, start) : TRUE

\* remove_leaf(start) gets as far as the walk
C33_Walks(start) ==
    /\ ingredients[start].kind # "source"
    /\ Cardinality(Children(edges, start)) <= 1
    /\ Children(edges, start) # {} => Cardinality(ReadersFor(G, start)) = 1
    /\ last_op'.res # "panic"

\* the walk of remove_leaf(start) from leaf: what it removes lies above the
\* leaf and has nothing below it that stays, so a node with a child that stays
\* and every node above it stay
C33_Walk(start, leaf, removed) ==
    /\ C33_Walks(start) => leaf \in removed
    /\ ~C33_Walks(start) => removed = {}
    /\ \A n \in removed \ {leaf} :
          /\ leaf \in Bfs(edges, n)
          /\ ingredients[n].kind \notin {"source", "base"}
          /\ n = start \/ ~IsLeafAddress(recipe.addr, n)
          /\ Children(edges, n) \subseteq removed
          /\ Children(edges', n) = {}
    /\ \A n \in removed : Bfs(edges, n) \subseteq removed
    /\ edges' = {e \in edges : e[2] \notin removed}

\* node n is named in a RemoveNodes request to its domain
C33_Reported(n) ==
    \E i \in 1..Len(rpc_log') :
        rpc_log'[i].domain = ingredients[n].domain /\ n \in rpc_log'[i].nodes

C33_Told(removed) ==
    /\ last_op'.res = "ok" =>
          \A n \in removed :
              Healthy(domains, workers, ingredients[n].domain) => C33_Reported(n)
    /\ \A i \in 1..Len(rpc_log') : rpc_log'[i].nodes \subseteq removed

\* C33: remove_leaf removes the leaf's reader and walks upward, removing an
\* ancestor only if it is no Source, no Base, no leaf of another query and has
\* no outgoing edge left; a node with another child and every node above it
\* stay.  When it returns Ok, every removed node has been named in a
\* RemoveNodes request to its domain if a worker of the domain is registered;
\* when a request fails the nodes are marked removed all the same.
C33_RemovesOrphans ==
    [][\A start \in ShapeNodes, rpc_ok \in BOOLEAN :
          RemoveLeafCall(start, rpc_ok) =>
              /\ C33_Walk(start, C33_Leaf(start), C33_Removed)
              /\ C33_Told(C33_Removed)]_vars

\* a leaf and its reader are removed and reported; the operator above them,
\* the leaf of another query, has lost its edge and stays
C33_Witness ==
    /\ last_op = Op("remove_leaf", "ok", NoOffset)
    /\ Len(rpc_log) = 2
    /\ Cardinality({n \in ShapeNodes : ingredients[n].kind = "dropped"}) = 2
    /\ \E n \in ShapeNodes :
          /\ ingredients[n].kind = "internal"
          /\ IsLeafAddress(recipe.addr, n)
          /\ Children(edges, n) = {}

\* C33 as stated: every removed node is reported to its domain.
C33_AllReported ==
    [][\A start \in ShapeNodes, rpc_ok \in BOOLEAN :
          RemoveLeafCall(start, rpc_ok) =>
              /\ C33_Walk(start, C33_Leaf(start), C33_Removed)
              /\ \A n \in C33_Removed : C33_Reported(n)]_vars

----------------------------------------------------------------------------
(* The children of the Source.                                              *)

\* C34: every outgoing neighbour of the Source is a Base that has not been
\* removed, so the assertion of inputs() holds in every state.
C34_SourceFeedsLiveBases ==
    /\ \A n \in Children(edges, Source) : ingredients[n].kind = "base"
    /\ ~InputsPanics

----------------------------------------------------------------------------
(* Recovery.                                                                *)

\* C35: a registration that has replayed the stored recipes leaves the recipe
\* at the stored version, and the version the replay starts from is not
\* negative.
C35_RecoversStoredVersion ==
    [][(pending_recovery.some /\ ~pending_recovery'.some /\ last_op'.res = "ok") =>
          /\ recipe'.version = pending_recovery.version
          /\ ReplayStart(Len(pending_recovery.recipes), pending_recovery.version).version >= 0]_vars

\* C36: the registration that drains pending_recovery finds exactly a quorum
\* of workers registered and the recipe at version 0, whatever registrations
\* and worker failures came before it
C36_DrainAssertionsHold ==
    [][\A w \in WorkerIds, pw \in WorkerIds, fail \in Failures :
          (Register(w, pw, fail) /\ DrainsRecovery(workers \cup {w})) =>
              /\ Cardinality(workers') = Quorum
              /\ recipe.version = 0]_vars

C37_ReplayFailed == C14_Drained /\ last_op' = Op("register", "err", NoOffset)

\* C37: pending_recovery is taken before the stored recipes are replayed.  A
\* registration whose replay fails leaves pending_recovery empty and the
\* worker registered, installs the stored recipes that came before the
\* failing one and none after it, and leaves the quorum gate open: no later
\* request is answered with NoQuorum because a recovery is pending.
C37_FailedReplayOpensGate ==
    /\ [][\A w \in WorkerIds, pw \in WorkerIds,
             fail \in {"none", "migrate", "migrate_later"} :
             (Register(w, pw, fail) /\ C37_ReplayFailed) =>
                 /\ ~pending_recovery'.some
                 /\ w \in workers'
                 /\ \E k \in 0..(Len(pending_recovery.recipes) - 1) :
                       recipe'.stmts = C14_Stored(SubSeq(pending_recovery.recipes, 1, k))
                 /\ ~QuorumGate']_vars
    /\ [][~pending_recovery.some => ~pending_recovery'.some]_vars
    /\ [][(~pending_recovery.some /\ Cardinality(workers) >= Quorum) =>
             last_op'.res # "NoQuorum"]_vars

C37_Witness ==
    /\ last_op = Op("register", "err", NoOffset)
    /\ ~pending_recovery.some
    /\ Cardinality(workers) = Quorum
    /\ Len(auth.recipes) = 2
    /\ recipe.stmts = auth.recipes[1]

C38_Failed == last_op' = Op("/replicate_readers", "err", NoOffset)

C38_New == (Len(ingredients) + 1)..Len(ingredients')

\* C38: replicate_readers puts the mirror readers and their edges into the
\* graph before the migration runs; when the migration fails the call returns
\* the error and the graph keeps the new readers and edges, none of them in a
\* domain, with everything that was there before unchanged.
C38_MirrorsOutliveFailure ==
    [][C38_Failed =>
          /\ C38_New # {}
          /\ SubSeq(ingredients', 1, Len(ingredients)) = ingredients
          /\ domains' = domains
          /\ recipe' = recipe
          /\ edges \subseteq edges'
          /\ \A n \in C38_New :
                /\ ingredients'[n].kind = "reader"
                /\ ingredients'[n].domain \notin 1..Len(domains')
                /\ <<ingredients'[n].for, n>> \in edges' \ edges
                /\ ingredients'[n].for \in 1..Len(ingredients)]_vars

C38_Witness ==
    /\ last_op = Op("/replicate_readers", "err", NoOffset)
    /\ \E n \in 1..Len(ingredients), p \in 1..Len(ingredients) :
          /\ ingredients[n].kind = "reader"
          /\ ingredients[n].domain \notin 1..Len(domains)
          /\ <<p, n>> \in edges
          /\ \E r \in 1..Len(ingredients) :
                /\ r # n
                /\ <<p, r>> \in edges
                /\ ingredients[r].kind = "reader"
                /\ ingredients[r].domain \in 1..Len(domains)

C39_Readers(name, filter) ==
    IF ViewNode(name) = NoNode THEN {} ELSE FindReadersFor(ViewNode(name), name, filter)

C39_Answered == last_op'.op = "/view_builder"

\* C39: view_builder hands out no read address of a worker that is not
\* registered.  When a reader of the view is in a domain assigned to a worker
\* that handle_failed_workers has removed, and whose entry read_addrs still
\* holds, the request is answered with UnmappableDomain; a request that is
\* answered with a ViewBuilder names registered workers only.
C39_NoStaleReadAddress ==
    [][\A name \in ViewNames, filter \in ViewFilters :
          ViewBuilder(name, filter) =>
              /\ last_op'.res = "ok" =>
                    /\ C39_Readers(name, filter) # {}
                    /\ ViewShards(C39_Readers(name, filter)) \subseteq workers
              /\ (\E r \in C39_Readers(name, filter) :
                     /\ ingredients[r].domain \in 1..Len(domains)
                     /\ domains[ingredients[r].domain] \in read_addrs \ workers)
                 => last_op'.res = "UnmappableDomain"]_vars

C39_Witness ==
    /\ last_op = Op("/view_builder", "UnmappableDomain", NoOffset)
    /\ \E r \in 1..Len(ingredients) :
          /\ ingredients[r].kind = "reader"
          /\ ingredients[r].name = "q1"
          /\ ingredients[r].domain \in 1..Len(domains)
          /\ domains[ingredients[r].domain] \in read_addrs \ workers

----------------------------------------------------------------------------
(* The query cache of the connectors.                                       *)

C40_Requests(q) == {i \in 1..Len(extend_log) : extend_log[i].q = q}

\* every name a cache holds, a request carries or a call returns is the
\* name of its statement
C40_SameName ==
    /\ \A q \in DOMAIN cached : cached[q] = QName(q)
    /\ \A c \in DOMAIN tl_cached : \A q \in DOMAIN tl_cached[c] : tl_cached[c][q] = QName(q)
    /\ \A i \in 1..Len(extend_log) : extend_log[i].name = QName(extend_log[i].q)
    /\ \A c \in DOMAIN connector_state :
          connector_state[c].result \in {"none", "Err", QName(connector_state[c].q)}

====
